---- MODULE Spec2Model ----
(***************************************************************************)
(* Model of scripts/doc_workflow.py: render_template and its helpers.      *)
(*                                                                         *)
(* Text is a sequence of one-character strings, so that the regular        *)
(* expressions, str.replace and str.strip of the source act on characters  *)
(* as they do in Python.  A Python value is a tagged record:               *)
(*   [t |-> "none"]            None                                        *)
(*   [t |-> "bool", b |-> _]   True / False                                *)
(*   [t |-> "int", n |-> _]    int                                         *)
(*   [t |-> "float", c |-> _]  float, c hundredths (3.14 is c = 314)       *)
(*   [t |-> "str", s |-> _]    str, s a sequence of characters             *)
(*   [t |-> "list", l |-> _]   list, l a sequence of values                *)
(*   [t |-> "dict", d |-> _]   dict, d a sequence of [k, v] entries in     *)
(*                             insertion order, keys unique                *)
(* Floats are limited to values with at most two decimals, for which       *)
(* "%.2f" and repr are exact.  Text contains no quote or backslash, so     *)
(* repr of a str only escapes the newline.                                 *)
(***************************************************************************)
EXTENDS Integers, Sequences, FiniteSets, TLC

VARIABLES template, context, now, pc, ctx, result, calls

\* run_audit (retail_audit.py): its arguments, the report it builds, the
\* alerts of the store at hand, the positions of its two loops and the
\* statement about to run
VARIABLES stores, config, report, store_alerts, si, ri, apc

\* batch_create / batch_update (bitable_engine.py): which of the two runs,
\* its arguments, the locals of its loop, the calls of the API so far, the
\* statement about to run and the dict returned
VARIABLES op, records, dry_run, offset, created, errors, sent, bpc, ret

\* run_due_jobs (report_generator.py): the jobs of the schedule file, the
\* state file, the wall clock in hours, the argument force_job, the locals
\* state and results, the position of the loop and the statement about to
\* run; loaded is the state as read at the start of the call, started the
\* time of the call, last_invoked the time each job id had its runner entered
\* last, forced_ever whether a runner was ever entered under force_job, saves
\* the number of save_state calls of this call, runs the number of calls so far
VARIABLES jobs, state_file, clock, force_job, state, results, ji, jpc, loaded, started, last_invoked, forced_ever, saves, runs

\* get_token (feishu_api.py): time.time() in seconds and the number of times
\* it has moved, the module's cache, the local now, the statement about to
\* run, the response at hand, the token returned, the requests posted by the
\* call at hand; valid_until is the moment the server stops accepting the
\* cached token, issued the number of tokens the server has given out
VARIABLES wall, ticks, _token_cache, t_now, tpc, resp, token, posts, valid_until, issued

\* bitable_list_all_records (feishu_api.py): the pages the server holds,
\* the locals all_records, page_token and data, the arguments of the
\* bitable_list_records call at hand, and the statement about to run
VARIABLES table, all_records, page_token, request, data, lpc

\* _import (report_generator.py): os.environ restricted to the two
\* credentials, the module cache, the argument, the local patched, the
\* environment as it was when the call began, and the statement about to run
VARIABLES environ, _modules, mod_name, patched, environ0, ipc

renderVars == <<template, context, now, pc, ctx, result, calls>>

auditVars == <<stores, config, report, store_alerts, si, ri, apc>>

batchVars == <<op, records, dry_run, offset, created, errors, sent, bpc, ret>>

jobVars == <<jobs, state_file, clock, force_job, state, results, ji, jpc, loaded, started, last_invoked, forced_ever, saves, runs>>

tokenVars == <<wall, ticks, _token_cache, t_now, tpc, resp, token, posts, valid_until, issued>>

pageVars == <<table, all_records, page_token, request, data, lpc>>

importVars == <<environ, _modules, mod_name, patched, environ0, ipc>>

vars == <<renderVars, auditVars, batchVars, jobVars, tokenVars, pageVars, importVars>>

\* what the steps of one function leave alone: the variables of the others
otherThanRender == <<auditVars, batchVars, jobVars, tokenVars, pageVars, importVars>>
otherThanAudit == <<renderVars, batchVars, jobVars, tokenVars, pageVars, importVars>>
otherThanBatch == <<renderVars, auditVars, jobVars, tokenVars, pageVars, importVars>>
otherThanJobs == <<renderVars, auditVars, batchVars, tokenVars, pageVars, importVars>>
otherThanToken == <<renderVars, auditVars, batchVars, jobVars, pageVars, importVars>>
otherThanPages == <<renderVars, auditVars, batchVars, jobVars, tokenVars, importVars>>
otherThanImport == <<renderVars, auditVars, batchVars, jobVars, tokenVars, pageVars>>

(***************************************************************************)
(* Characters and character classes of the patterns.                       *)
(***************************************************************************)
NL == "\n"

Lower == {"a", "b", "c", "d", "e", "f", "g", "h", "i", "j", "k", "l", "m",
          "n", "o", "p", "q", "r", "s", "t", "u", "v", "w", "x", "y", "z"}

Upper == {"A", "B", "C", "D", "E", "F", "G", "H", "I", "J", "K", "L", "M",
          "N", "O", "P", "Q", "R", "S", "T", "U", "V", "W", "X", "Y", "Z"}

Digit == <<"0", "1", "2", "3", "4", "5", "6", "7", "8", "9">>

\* \w of a str pattern (ASCII part) ...
WordChar == Lower \cup Upper \cup {Digit[i] : i \in 1..10} \cup {"_"}

\* ... [\w.] of each_pattern and the class of if_pattern and var_pattern,
\* which adds the CJK range that \w of a str pattern already matches; the
\* text of the model has no CJK character.
PathChar == WordChar \cup {"."}

\* \s
SpaceChar == {" ", NL, "\t"}

(***************************************************************************)
(* Text primitives.                                                        *)
(***************************************************************************)
\* s[i..] starts with p
StartsAt(s, i, p) ==
    /\ i + Len(p) - 1 <= Len(s)
    /\ SubSeq(s, i, i + Len(p) - 1) = p

\* The first index j >= i with s[j] \notin class (Len(s) + 1 when none):
\* the end of a greedy run of a character class.
RECURSIVE RunEnd(_, _, _)
RunEnd(s, i, class) ==
    IF i > Len(s) \/ s[i] \notin class THEN i ELSE RunEnd(s, i + 1, class)

\* The least j >= i where p occurs in s, 0 when it does not occur.
RECURSIVE FindFrom(_, _, _)
FindFrom(s, i, p) ==
    IF i + Len(p) - 1 > Len(s) THEN 0
    ELSE IF StartsAt(s, i, p) THEN i
    ELSE FindFrom(s, i + 1, p)

Contains(s, p) == FindFrom(s, 1, p) # 0

\* str.replace(old, new), old non-empty: leftmost non-overlapping occurrences
RECURSIVE StrReplace(_, _, _)
StrReplace(s, old, new) ==
    LET j == FindFrom(s, 1, old) IN
    IF j = 0 THEN s
    ELSE SubSeq(s, 1, j - 1) \o new
         \o StrReplace(SubSeq(s, j + Len(old), Len(s)), old, new)

\* str.strip("\n"): every leading and every trailing newline is removed
RECURSIVE LStrip(_, _)
LStrip(s, class) ==
    IF s # <<>> /\ Head(s) \in class THEN LStrip(Tail(s), class) ELSE s

RECURSIVE RStrip(_, _)
RStrip(s, class) ==
    IF s # <<>> /\ s[Len(s)] \in class
    THEN RStrip(SubSeq(s, 1, Len(s) - 1), class) ELSE s

Strip(s, class) == RStrip(LStrip(s, class), class)

\* sep.join(parts)
RECURSIVE Join(_, _)
Join(parts, sep) ==
    IF parts = <<>> THEN <<>>
    ELSE IF Len(parts) = 1 THEN parts[1]
    ELSE parts[1] \o sep \o Join(Tail(parts), sep)

\* key.split(sep), sep one character
RECURSIVE Split(_, _)
Split(s, sep) ==
    LET j == FindFrom(s, 1, <<sep>>) IN
    IF j = 0 THEN <<s>>
    ELSE <<SubSeq(s, 1, j - 1)>> \o Split(SubSeq(s, j + 1, Len(s)), sep)

(***************************************************************************)
(* Python values.                                                          *)
(***************************************************************************)
None == [t |-> "none"]
VBool(b) == [t |-> "bool", b |-> b]
VInt(n) == [t |-> "int", n |-> n]
VFloat(c) == [t |-> "float", c |-> c]
VStr(s) == [t |-> "str", s |-> s]
VList(l) == [t |-> "list", l |-> l]
VDict(d) == [t |-> "dict", d |-> d]

\* a float that is an infinity or a NaN, with its repr
VNonFinite(f) == [t |-> "nonfinite", f |-> f]
Inf == VNonFinite(<<"i", "n", "f">>)
NegInf == VNonFinite(<<"-", "i", "n", "f">>)
NaN == VNonFinite(<<"n", "a", "n">>)
Entry(k, v) == [k |-> k, v |-> v]

\* d.get(key) on the entries of a dict
RECURSIVE DictGet(_, _)
DictGet(d, key) ==
    IF d = <<>> THEN None
    ELSE IF d[1].k = key THEN d[1].v
    ELSE DictGet(Tail(d), key)

DictHas(d, key) == \E i \in 1..Len(d) : d[i].k = key

\* the merge with the entries of the first dict winning
DictMergeLeft(a, b) ==
    a \o SelectSeq(b, LAMBDA e : ~DictHas(a, e.k))

\* {**a, **b}: a's entries in place, with b's value where b has the key,
\* followed by b's entries whose key a lacks
DictMerge(a, b) ==
    LET over == [i \in 1..Len(a) |->
                    IF DictHas(b, a[i].k) THEN Entry(a[i].k, DictGet(b, a[i].k))
                    ELSE a[i]]
        rest == SelectSeq(b, LAMBDA e : ~DictHas(a, e.k))
    IN over \o rest

\* bool(v)
PyTruth(v) ==
    CASE v.t = "none"  -> FALSE
      [] v.t = "bool"  -> v.b
      [] v.t = "int"   -> v.n # 0
      [] v.t = "float" -> v.c # 0
      [] v.t = "nonfinite" -> TRUE
      [] v.t = "str"   -> v.s # <<>>
      [] v.t = "list"  -> v.l # <<>>
      [] v.t = "dict"  -> v.d # <<>>

\* v == "", v == [], v == 0
EqEmptyStr(v) == v.t = "str" /\ v.s = <<>>
EqEmptyList(v) == v.t = "list" /\ v.l = <<>>
EqZero(v) ==
    \/ v.t = "int" /\ v.n = 0
    \/ v.t = "float" /\ v.c = 0
    \/ v.t = "bool" /\ ~v.b

Abs(n) == IF n < 0 THEN -n ELSE n

RECURSIVE NatStr(_)
NatStr(n) ==
    IF n < 10 THEN <<Digit[n + 1]>>
    ELSE NatStr(n \div 10) \o <<Digit[(n % 10) + 1]>>

\* str(int)
IntStr(n) == IF n < 0 THEN <<"-">> \o NatStr(-n) ELSE NatStr(n)

Sign(c) == IF c < 0 THEN <<"-">> ELSE <<>>

\* f"{val:.2f}"
Fixed2(c) ==
    Sign(c) \o NatStr(Abs(c) \div 100) \o <<".">>
    \o <<Digit[((Abs(c) % 100) \div 10) + 1], Digit[(Abs(c) % 10) + 1]>>

\* str(float) / repr(float): shortest digits, at least one decimal
FloatStr(c) ==
    Sign(c) \o NatStr(Abs(c) \div 100) \o <<".">>
    \o (IF Abs(c) % 10 = 0 THEN <<Digit[((Abs(c) % 100) \div 10) + 1]>>
        ELSE <<Digit[((Abs(c) % 100) \div 10) + 1], Digit[(Abs(c) % 10) + 1]>>)

\* repr(str) without quotes or backslashes in the text
RECURSIVE Escaped(_)
Escaped(s) ==
    IF s = <<>> THEN <<>>
    ELSE (IF Head(s) = NL THEN <<"\\", "n">> ELSE <<Head(s)>>) \o Escaped(Tail(s))

\* repr(v), and str(v) which differs from it for a str only
RECURSIVE PyRepr(_)
PyRepr(v) ==
    CASE v.t = "none"  -> <<"N", "o", "n", "e">>
      [] v.t = "bool"  -> IF v.b THEN <<"T", "r", "u", "e">>
                          ELSE <<"F", "a", "l", "s", "e">>
      [] v.t = "int"   -> IntStr(v.n)
      [] v.t = "float" -> FloatStr(v.c)
      [] v.t = "nonfinite" -> v.f
      [] v.t = "str"   -> <<"'">> \o Escaped(v.s) \o <<"'">>
      [] v.t = "list"  ->
            <<"[">> \o Join([i \in 1..Len(v.l) |-> PyRepr(v.l[i])], <<",", " ">>)
            \o <<"]">>
      [] v.t = "dict"  ->
            <<"{">>
            \o Join([i \in 1..Len(v.d) |->
                        PyRepr(VStr(v.d[i].k)) \o <<":", " ">> \o PyRepr(v.d[i].v)],
                    <<",", " ">>)
            \o <<"}">>

PyStr(v) == IF v.t = "str" THEN v.s ELSE PyRepr(v)

\* _to_str without the float branch
_to_str_str(val) ==
    IF val.t = "none" THEN <<>>
    ELSE IF val.t = "list"
         THEN Join([i \in 1..Len(val.l) |-> PyStr(val.l[i])], <<",", " ">>)
    ELSE PyStr(val)

\* int(val) raises OverflowError for an infinity and ValueError for a NaN
ToStrRaises(val) == val.t = "nonfinite"

\* what a call has in place of a value when it raises
Raised == [exc |-> "raised"]

\* _to_str
_to_str(val) ==
    IF val.t = "none" THEN <<>>
    ELSE IF ToStrRaises(val) THEN Raised
    ELSE IF val.t = "float"
         THEN (IF val.c % 100 = 0 THEN IntStr((IF val.c < 0 THEN -1 ELSE 1) * (Abs(val.c) \div 100))
               ELSE Fixed2(val.c))
    ELSE IF val.t = "list"
         THEN Join([i \in 1..Len(val.l) |-> PyStr(val.l[i])], <<",", " ">>)
    ELSE PyStr(val)

\* the loop returning the value reached so far when it is no dict
RECURSIVE DescendKeepLast(_, _)
DescendKeepLast(current, parts) ==
    IF parts = <<>> THEN current
    ELSE IF current.t # "dict" THEN current
    ELSE LET next == DictGet(current.d, Head(parts)) IN
         IF next.t = "none" THEN None ELSE DescendKeepLast(next, Tail(parts))

\* _resolve_dotted: the loop over the parts of the path
RECURSIVE Descend(_, _)
Descend(current, parts) ==
    IF parts = <<>> THEN current
    ELSE IF current.t # "dict" THEN None
    ELSE LET next == DictGet(current.d, Head(parts)) IN
         IF next.t = "none" THEN None ELSE Descend(next, Tail(parts))

_resolve_dotted(c, key) == Descend(VDict(c), Split(key, "."))

(***************************************************************************)
(* The built-in variables: strftime over the current instant.  An instant  *)
(* is [day, hour, minute], day counted from 1970-01-01 (a Thursday).       *)
(***************************************************************************)
\* date.weekday(): Monday is 0
Weekday(day) == (day + 3) % 7

\* The proleptic Gregorian date of a day number, as datetime computes it
CivilFromDays(day) ==
    LET z   == day + 719468
        era == z \div 146097
        doe == z - era * 146097
        yoe == (doe - (doe \div 1460) + (doe \div 36524) - (doe \div 146096)) \div 365
        doy == doe - (365 * yoe + (yoe \div 4) - (yoe \div 100))
        mp  == (5 * doy + 2) \div 153
        d   == doy - ((153 * mp + 2) \div 5) + 1
        m   == IF mp < 10 THEN mp + 3 ELSE mp - 9
        y   == yoe + era * 400 + (IF m <= 2 THEN 1 ELSE 0)
    IN [year |-> y, month |-> m, day |-> d]

\* zero-padded decimal of a natural number, at least w digits
RECURSIVE Pad(_, _)
Pad(n, w) ==
    IF w <= 1 THEN NatStr(n)
    ELSE IF Len(NatStr(n)) >= w THEN NatStr(n)
    ELSE <<"0">> \o Pad(n, w - 1)

\* strftime("%Y-%m-%d")
StrfDate(day) ==
    LET c == CivilFromDays(day) IN
    Pad(c.year, 4) \o <<"-">> \o Pad(c.month, 2) \o <<"-">> \o Pad(c.day, 2)

\* strftime("%Y-%m-%d %H:%M")
StrfMinute(t) ==
    StrfDate(t.day) \o <<" ">> \o Pad(t.hour, 2) \o <<":">> \o Pad(t.minute, 2)

K_TODAY == <<"T", "O", "D", "A", "Y">>
K_YESTERDAY == <<"Y", "E", "S", "T", "E", "R", "D", "A", "Y">>
K_WEEK_START == <<"W", "E", "E", "K", "_", "S", "T", "A", "R", "T">>
K_WEEK_END == <<"W", "E", "E", "K", "_", "E", "N", "D">>
K_NOW == <<"N", "O", "W">>

builtins(today) ==
    << Entry(K_TODAY, VStr(StrfDate(today.day))),
       Entry(K_YESTERDAY, VStr(StrfDate(today.day - 1))),
       Entry(K_WEEK_START, VStr(StrfDate(today.day - Weekday(today.day)))),
       Entry(K_WEEK_END, VStr(StrfDate(today.day - Weekday(today.day) + 6))),
       Entry(K_NOW, VStr(StrfMinute(today))) >>

(***************************************************************************)
(* The three patterns.  A match is [ok, start, end, g0, g1, g2]: end is    *)
(* the index after the match, g0 the matched text, g1 and g2 the groups.   *)
(***************************************************************************)
LBrace2 == <<"{", "{">>
RBrace2 == <<"}", "}">>
EachOpen == LBrace2 \o <<"#", "e", "a", "c", "h">>
EachClose == LBrace2 \o <<"/", "e", "a", "c", "h">> \o RBrace2
IfOpen == LBrace2 \o <<"#", "i", "f">>
IfClose == LBrace2 \o <<"/", "i", "f">> \o RBrace2

NoMatch == [ok |-> FALSE, start |-> 0, end |-> 0, g0 |-> <<>>, g1 |-> <<>>, g2 |-> <<>>]

\* opener \s+ (path class)+ \}\} (.*?) closer, with DOTALL, tried at index i.
\* The classes are disjoint and exclude "}", so the greedy runs are the only
\* way to match; the lazy body ends at the first closer.
BlockMatch(s, i, opener, closer) ==
    IF ~StartsAt(s, i, opener) THEN NoMatch
    ELSE LET a == i + Len(opener)
             b == RunEnd(s, a, SpaceChar)
             c == RunEnd(s, b, PathChar)
             d == FindFrom(s, c + 2, closer)
         IN IF b > a /\ c > b /\ StartsAt(s, c, RBrace2) /\ d # 0
            THEN [ok |-> TRUE, start |-> i, end |-> d + Len(closer),
                  g0 |-> SubSeq(s, i, d + Len(closer) - 1),
                  g1 |-> SubSeq(s, b, c - 1),
                  g2 |-> SubSeq(s, c + 2, d - 1)]
            ELSE NoMatch

each_pattern(s, i) == BlockMatch(s, i, EachOpen, EachClose)

if_pattern(s, i) == BlockMatch(s, i, IfOpen, IfClose)

\* \{\{ (path class)+ \}\}
var_pattern(s, i) ==
    IF ~StartsAt(s, i, LBrace2) THEN NoMatch
    ELSE LET b == i + 2
             c == RunEnd(s, b, PathChar)
         IN IF c > b /\ StartsAt(s, c, RBrace2)
            THEN [ok |-> TRUE, start |-> i, end |-> c + 2,
                  g0 |-> SubSeq(s, i, c + 1),
                  g1 |-> SubSeq(s, b, c - 1),
                  g2 |-> <<>>]
            ELSE NoMatch

PatternAt(pat, s, i) ==
    CASE pat = "each" -> each_pattern(s, i)
      [] pat = "if"   -> if_pattern(s, i)
      [] pat = "var"  -> var_pattern(s, i)

\* pattern.sub(repl, text, count=1): the scan stops at the first match
RECURSIVE FindFirst(_, _, _)
FindFirst(pat, s, i) ==
    IF i > Len(s) THEN <<>>
    ELSE LET m == PatternAt(pat, s, i) IN
         IF m.ok THEN <<m>> ELSE FindFirst(pat, s, i + 1)

\* The matches pattern.sub visits: leftmost first, each search resuming at
\* the end of the previous match (no match here is empty).
RECURSIVE FindAll(_, _, _)
FindAll(pat, s, i) ==
    IF i > Len(s) THEN <<>>
    ELSE LET m == PatternAt(pat, s, i) IN
         IF m.ok THEN <<m>> \o FindAll(pat, s, m.end)
         ELSE FindAll(pat, s, i + 1)

(***************************************************************************)
(* pattern.sub(repl, text) and the four replacement callbacks.             *)
(***************************************************************************)
RECURSIVE re_sub(_, _, _, _)

\* a condition that tests presence only
CondHoldsPresence(val) == val.t # "none"

\* the condition of replace_if and of _resolve_inner_if.replace:
\* val and val != [] and val != 0
CondHolds(val) == PyTruth(val) /\ ~EqEmptyList(val) /\ ~EqZero(val)

\* _resolve_inner_if.replace: the key is looked up in the item only
replace(m, item) ==
    LET val == DictGet(item, m.g1) IN
    IF CondHolds(val) THEN m.g2 ELSE <<>>

\* the loop body handed on without the nested conditionals resolved
_resolve_inner_if_skip(text, item) == text

_resolve_inner_if(text, item) == re_sub("if", "inner", text, item)

\* all(v is None or v == "" or v == [] for v in item.values())
AllEmpty(item) ==
    \A i \in 1..Len(item) :
        item[i].v.t = "none" \/ EqEmptyStr(item[i].v) \/ EqEmptyList(item[i].v)

\* for k, v in item.items(): line = line.replace("{{" + k + "}}", _to_str(v))
RECURSIVE FieldSubst(_, _)
FieldSubst(line, item) ==
    IF item = <<>> THEN line
    ELSE FieldSubst(StrReplace(line, LBrace2 \o item[1].k \o RBrace2, _to_str(item[1].v)),
                    Tail(item))

IndexToken == LBrace2 \o <<"@", "i", "n", "d", "e", "x">> \o RBrace2
ThisToken == LBrace2 \o <<"t", "h", "i", "s">> \o RBrace2

\* the body of the loop for a dict item that is not skipped
RecordLine(body, item, idx) ==
    StrReplace(FieldSubst(_resolve_inner_if(body, item), item), IndexToken, IntStr(idx))

\* the loop with a counter of the lines written instead of enumerate
RECURSIVE EachLinesRenumbered(_, _, _)
EachLinesRenumbered(body, items, idx) ==
    IF items = <<>> THEN <<>>
    ELSE LET item == Head(items) IN
         IF item.t = "dict"
         THEN (IF AllEmpty(item.d) THEN EachLinesRenumbered(body, Tail(items), idx)
               ELSE <<RecordLine(body, item.d, idx)>>
                    \o EachLinesRenumbered(body, Tail(items), idx + 1))
         ELSE <<StrReplace(body, ThisToken, _to_str(item))>>
              \o EachLinesRenumbered(body, Tail(items), idx + 1)

\* the loop of replace_each over enumerate(items), from index idx on
RECURSIVE EachLines(_, _, _)
EachLines(body, items, idx) ==
    IF items = <<>> THEN <<>>
    ELSE LET item == Head(items)
             rest == EachLines(body, Tail(items), idx + 1)
         IN IF item.t = "dict"
            THEN (IF AllEmpty(item.d) THEN rest
                  ELSE <<RecordLine(body, item.d, idx)>> \o rest)
            ELSE <<StrReplace(body, ThisToken, _to_str(item))>> \o rest

\* the loop of replace_each reaches a call of _to_str that raises: for a
\* dict item that is not skipped every field value is formatted, whatever
\* the body, and every other item is formatted for {{this}}
EachLinesRaise(items) ==
    \E i \in 1..Len(items) :
        IF items[i].t = "dict"
        THEN /\ ~AllEmpty(items[i].d)
             /\ \E j \in 1..Len(items[i].d) : ToStrRaises(items[i].d[j].v)
        ELSE ToStrRaises(items[i])

\* one newline removed at each end, where there is one
EachBodyOne(m) ==
    LET a == IF m.g2 # <<>> /\ Head(m.g2) = NL THEN Tail(m.g2) ELSE m.g2 IN
    IF a # <<>> /\ a[Len(a)] = NL THEN SubSeq(a, 1, Len(a) - 1) ELSE a

\* m.group(2).strip("\n")
EachBody(m) == Strip(m.g2, {NL})

\* the lines joined without the newline
replace_each_concat(m, c) ==
    LET items == _resolve_dotted(c, m.g1) IN
    IF items.t # "list" THEN <<>>
    ELSE Join(EachLines(EachBody(m), items.l, 0), <<>>)

\* the body kept when the path is no list
replace_each_keep(m, c) ==
    LET items == _resolve_dotted(c, m.g1) IN
    IF items.t # "list" THEN EachBody(m)
    ELSE Join(EachLines(EachBody(m), items.l, 0), <<NL>>)

replace_each(m, c) ==
    LET items == _resolve_dotted(c, m.g1) IN
    IF items.t # "list" THEN <<>>
    ELSE Join(EachLines(EachBody(m), items.l, 0), <<NL>>)

replace_if(m, c) ==
    LET val == _resolve_dotted(c, m.g1) IN
    IF CondHolds(val) THEN m.g2 ELSE <<>>

\* replace_var without the fallback to the token
replace_var_blank(m, c) == _to_str(_resolve_dotted(c, m.g1))

replace_var(m, c) ==
    LET val == _resolve_dotted(c, m.g1) IN
    IF val.t # "none" THEN _to_str(val) ELSE m.g0

replace_each_raises(m, c) ==
    LET items == _resolve_dotted(c, m.g1) IN
    items.t = "list" /\ EachLinesRaise(items.l)

replace_var_raises(m, c) == ToStrRaises(_resolve_dotted(c, m.g1))

\* pattern.sub(repl, s) raises when a call of the callback does
SubRaises(pat, s, c) ==
    LET ms == FindAll(pat, s, 1) IN
    \E i \in 1..Len(ms) :
        CASE pat = "each" -> replace_each_raises(ms[i], c)
          [] pat = "var"  -> replace_var_raises(ms[i], c)
          [] OTHER        -> FALSE

Replacement(repl, m, c) ==
    CASE repl = "each"  -> replace_each(m, c)
      [] repl = "if"    -> replace_if(m, c)
      [] repl = "var"   -> replace_var(m, c)
      [] repl = "inner" -> replace(m, c)

\* the text after the last match dropped
RECURSIVE AssembleNoTail(_, _, _, _, _)
AssembleNoTail(ms, s, pos, repl, c) ==
    IF ms = <<>> THEN <<>>
    ELSE SubSeq(s, pos, ms[1].start - 1) \o Replacement(repl, ms[1], c)
         \o AssembleNoTail(Tail(ms), s, ms[1].end, repl, c)

\* the text between the matches is copied, each match is replaced by the
\* callback's result, and the result is not scanned again
RECURSIVE Assemble(_, _, _, _, _)
Assemble(ms, s, pos, repl, c) ==
    IF ms = <<>> THEN SubSeq(s, pos, Len(s))
    ELSE SubSeq(s, pos, ms[1].start - 1) \o Replacement(repl, ms[1], c)
         \o Assemble(Tail(ms), s, ms[1].end, repl, c)

re_sub(pat, repl, s, c) == Assemble(FindAll(pat, s, 1), s, 1, repl, c)

\* result = each_pattern.sub(replace_each, result)
IterationPass(s, c) == re_sub("each", "each", s, c)

\* result = if_pattern.sub(replace_if, result)
ConditionalPass(s, c) == re_sub("if", "if", s, c)

\* result = var_pattern.sub(replace_var, result)
VariablePass(s, c) == re_sub("var", "var", s, c)

(***************************************************************************)
(* Inputs of a call: a template, the caller's context and the instant      *)
(* datetime.now() returns.                                                  *)
(***************************************************************************)
MaxItems == 2
MaxNum == 1
MaxNewlines == 2
MaxCalls == 2

SeqsUpTo(S, n) == UNION {[1..m -> S] : m \in 0..n}

\* the directive syntax of the docstring
Var(path) == LBrace2 \o path \o RBrace2
If(path, body) == IfOpen \o <<" ">> \o path \o RBrace2 \o body \o IfClose
Each(path, body) == EachOpen \o <<" ">> \o path \o RBrace2 \o body \o EachClose

kK == <<"k">>
kXs == <<"x", "s">>
kYs == <<"y", "s">>
kO == <<"o">>
kA == <<"a">>
kB == <<"b">>
kKA == <<"k", ".", "a">>
kKAB == <<"k", ".", "a", ".", "b">>

Scalars ==
    {None, VBool(TRUE), VBool(FALSE), VStr(<<>>), VStr(<<"s">>)}
    \cup {VInt(n) : n \in -1..MaxNum}
    \cup {VFloat(c) : c \in {0, 300, 310, 314, -50}}

ListElems == {None, VBool(TRUE), VInt(1), VFloat(300), VFloat(314), VStr(<<"a">>)}

Records ==
    {VDict(<<>>), VDict(<<Entry(kA, VInt(1))>>), VDict(<<Entry(kA, None)>>),
     VDict(<<Entry(kA, VDict(<<Entry(kB, VInt(1))>>))>>)}

\* values bound to the key k
KValues ==
    Scalars \cup {VList(l) : l \in SeqsUpTo(ListElems, MaxItems)} \cup Records
    \cup {Inf, NaN, VList(<<NegInf>>)}

\* items of the list bound to the key xs
Items ==
    {VDict(<<Entry(kA, v)>>) : v \in {None, VStr(<<>>), VList(<<>>), VStr(<<"A">>), VInt(0)}}
    \cup {VDict(<<Entry(kA, None), Entry(kB, VStr(<<"B">>))>>),
          VDict(<<>>), VStr(<<"s">>), VFloat(300), VList(<<None>>)}

\* values bound to the key xs
XsValues ==
    {VList(l) : l \in SeqsUpTo(Items, MaxItems)}
    \cup {None, VStr(<<"s">>), VInt(1), VDict(<<Entry(kA, VStr(<<"A">>))>>)}
    \cup {VList(<<NaN>>),
          VList(<<VDict(<<Entry(kA, VStr(<<"A">>))>>), VDict(<<Entry(kA, Inf)>>)>>),
          VList(<<VDict(<<Entry(kA, VStr(<<"A">>)), Entry(kB, NegInf)>>)>>)}

Instants ==
    {[day |-> 19783, hour |-> 9, minute |-> 5],
     [day |-> 20089, hour |-> 23, minute |-> 59]}

\* texts without a directive
PlainTexts ==
    {<<>>, <<"a", "{", "b", "}", "c">>, <<"}", "}", "k", "{">>, <<"k", NL, "#", "i", "f", " ", "k">>}

ScalarTemplates ==
    {If(kK, <<"X">>), Var(kK), <<"A">> \o Var(kK) \o <<"B">>, Var(kKA),
     Var(K_TODAY), If(K_TODAY, <<"X">>), <<"p", "l", "a", "i", "n">>,
     If(kK, <<"X">>) \o Var(kO), Var(kO), Var(kKAB),
     Var(K_YESTERDAY), Var(K_WEEK_START), Var(K_WEEK_END), Var(K_NOW),
     If(K_NOW, <<"X">>), Each(K_TODAY, <<"-">> \o ThisToken)}
    \cup PlainTexts

ScalarContexts ==
    {<<>>, <<Entry(K_TODAY, VStr(<<"m">>))>>, <<Entry(kO, VStr(<<"O">>))>>,
     <<Entry(K_TODAY, None)>>, <<Entry(K_TODAY, VList(<<VStr(<<"s">>), VInt(1)>>))>>,
     <<Entry(K_NOW, VInt(0)), Entry(K_WEEK_END, VStr(<<"w">>))>>}
    \cup {<<Entry(kK, v)>> : v \in KValues}

Newlines(n) == [i \in 1..n |-> NL]

\* [{{a}}]
Bracketed == <<"[">> \o Var(kA) \o <<"]">>

BracketTemplate == Each(kXs, Bracketed)
IndexTemplate == Each(kXs, IndexToken \o <<".">> \o Var(kA))
PlainTemplate == <<"P">> \o Each(kXs, <<"X">>) \o <<"Q">>
NewlineTemplate(n) == Each(kXs, Newlines(n) \o Bracketed \o Newlines(n))
OuterIfTemplate == Each(kXs, If(kO, Bracketed))
OuterVarTemplate == Each(kXs, Var(kA) \o Var(kO))
InnerIfTemplate == Each(kXs, If(kA, Bracketed))
ThisTemplate == Each(kXs, <<"-">> \o ThisToken \o IndexToken)
NestedTemplate == Each(kXs, Each(kYs, <<"X">>))
TwoBlockTemplate == Each(kXs, Var(kA)) \o <<"|">> \o Each(kXs, Var(kB))
OpenTemplate == EachOpen \o <<" ">> \o kXs \o RBrace2 \o <<"X">>

EachTemplates ==
    {BracketTemplate, IndexTemplate, PlainTemplate, OuterIfTemplate,
     OuterVarTemplate, InnerIfTemplate, ThisTemplate, NestedTemplate,
     TwoBlockTemplate, OpenTemplate}
    \cup {NewlineTemplate(n) : n \in 1..MaxNewlines}

EachContexts ==
    {<<Entry(kXs, v), Entry(kO, VStr(<<"O">>))>> : v \in XsValues}
    \cup {<<Entry(kO, VStr(<<"O">>))>>}

\* contexts with an outer key named as the item field
OuterFieldContexts ==
    {<<Entry(kXs, v), Entry(kA, VStr(<<"Z">>))>> : v \in XsValues}

\* string values that read as directives: {{TODAY}}, {{o}}, {{b}} and
\* {{#if o}}X{{/if}}
DirectiveTexts == {Var(K_TODAY), Var(kO), Var(kB), If(kO, <<"X">>)}

EachThisTemplate == Each(kXs, ThisToken)
EachFieldTemplate == Each(kXs, Var(kA))

DirectiveTemplates == {EachThisTemplate, EachFieldTemplate, Var(kK)}

\* such a value as an item, as the field a of an item and as the value of k
DirectiveContexts ==
    {<<Entry(kXs, VList(<<VStr(d)>>)), Entry(kO, VStr(<<"O">>))>> : d \in DirectiveTexts}
    \cup {<<Entry(kXs, VList(<<VDict(<<Entry(kA, VStr(d)), Entry(kB, VStr(<<"B">>))>>)>>)),
            Entry(kO, VStr(<<"O">>))>> : d \in DirectiveTexts}
    \cup {<<Entry(kK, VStr(d)), Entry(kO, VStr(<<"O">>))>> : d \in DirectiveTexts}

Inputs ==
    {[template |-> t, context |-> c, now |-> n] :
        t \in ScalarTemplates, c \in ScalarContexts, n \in Instants}
    \cup {[template |-> t, context |-> c, now |-> n] :
        t \in DirectiveTemplates, c \in DirectiveContexts,
        n \in {CHOOSE i \in Instants : TRUE}}
    \cup {[template |-> t, context |-> c, now |-> n] :
        t \in EachTemplates, c \in EachContexts, n \in {CHOOSE i \in Instants : TRUE}}
    \cup {[template |-> t, context |-> c, now |-> n] :
        t \in {InnerIfTemplate}, c \in OuterFieldContexts, n \in {CHOOSE i \in Instants : TRUE}}

(***************************************************************************)
(* render_template as a state machine: pc is the statement about to run.   *)
(***************************************************************************)
\* the conditional pass moved in front of the iteration pass
AfterIfFirst(p) ==
    CASE p = "start" -> "if"
      [] p = "if"    -> "each"
      [] p = "each"  -> "var"
      [] p = "var"   -> "done"

\* the order of the statements of render_template
After(p) ==
    CASE p = "start" -> "each"
      [] p = "each"  -> "if"
      [] p = "if"    -> "var"
      [] p = "var"   -> "done"

\* render_template is not running
RenderIdle ==
    /\ template = <<>> /\ context = <<>> /\ now = CHOOSE i \in Instants : TRUE
    /\ pc = "idle" /\ ctx = <<>> /\ result = <<>> /\ calls = 1

\* neither batch_create nor batch_update is running
BatchIdle ==
    /\ op = "create" /\ records = <<>> /\ dry_run = FALSE
    /\ offset = 0 /\ created = 0 /\ errors = <<>> /\ sent = <<>>
    /\ bpc = "idle" /\ ret = <<>>

\* run_due_jobs has never been called
JobsIdle ==
    /\ jobs = <<>> /\ state_file = <<>> /\ clock = 0 /\ force_job = ""
    /\ state = <<>> /\ results = <<>> /\ ji = 1 /\ jpc = "off"
    /\ loaded = <<>> /\ started = 0 /\ last_invoked = <<>> /\ forced_ever = FALSE
    /\ saves = 0 /\ runs = 0

\* get_token has never been called
TokenIdle ==
    /\ wall = 0 /\ ticks = 0
    /\ _token_cache = [token |-> 0, expires_at |-> 0] /\ t_now = 0
    /\ tpc = "off" /\ resp = <<>> /\ token = 0 /\ posts = 0
    /\ valid_until = 0 /\ issued = 0

\* bitable_list_all_records is not running
PagesIdle ==
    /\ table = <<>> /\ all_records = <<>> /\ page_token = 0
    /\ request = <<>> /\ data = <<>> /\ lpc = "off"

\* _import has never been called
ImportIdle ==
    /\ environ = <<>> /\ _modules = {} /\ mod_name = "" /\ patched = FALSE
    /\ environ0 = <<>> /\ ipc = "off"

\* run_audit is not running
AuditIdle ==
    /\ stores = <<>>
    /\ config = [rules |-> <<>>, scoring |-> {}]
    /\ report = [total_stores |-> 0, summary |-> [healthy |-> 0], alerts |-> <<>>,
                 store_scores |-> <<>>]
    /\ store_alerts = <<>>
    /\ si = 1
    /\ ri = 1
    /\ apc = "idle"

Init ==
    /\ \E in \in Inputs :
          /\ template = in.template
          /\ context = in.context
          /\ now = in.now
    /\ pc = "start"
    /\ ctx = <<>>
    /\ result = <<>>
    /\ calls = 1
    /\ AuditIdle
    /\ BatchIdle
    /\ JobsIdle
    /\ TokenIdle
    /\ PagesIdle
    /\ ImportIdle

TypeOK ==
    /\ pc \in {"start", "each", "if", "var", "done", "raised"}
    /\ [template |-> template, context |-> context, now |-> now] \in Inputs
    /\ calls \in 1..MaxCalls

\* the merged dict written into the caller's context
EnterInPlace ==
    /\ pc = "start"
    /\ ctx' = DictMerge(builtins(now), context)
    /\ context' = ctx'
    /\ result' = template
    /\ pc' = After("start")
    /\ UNCHANGED <<template, now, calls, otherThanRender>>

\* today = datetime.now(); builtins = ...; ctx = {**builtins, **context};
\* result = template
Enter ==
    /\ pc = "start"
    /\ ctx' = DictMerge(builtins(now), context)
    /\ result' = template
    /\ pc' = After("start")
    /\ UNCHANGED <<template, context, now, calls, otherThanRender>>

\* result = each_pattern.sub(replace_each, result)
IterationStage ==
    /\ pc = "each"
    /\ IF SubRaises("each", result, ctx)
       THEN pc' = "raised" /\ result' = result
       ELSE result' = IterationPass(result, ctx) /\ pc' = After("each")
    /\ UNCHANGED <<template, context, now, ctx, calls, otherThanRender>>

\* result = if_pattern.sub(replace_if, result)
ConditionalStage ==
    /\ pc = "if"
    /\ result' = ConditionalPass(result, ctx)
    /\ pc' = After("if")
    /\ UNCHANGED <<template, context, now, ctx, calls, otherThanRender>>

\* result = var_pattern.sub(replace_var, result); return result
VariableStage ==
    /\ pc = "var"
    /\ IF SubRaises("var", result, ctx)
       THEN pc' = "raised" /\ result' = result
       ELSE result' = VariablePass(result, ctx) /\ pc' = After("var")
    /\ UNCHANGED <<template, context, now, ctx, calls, otherThanRender>>

\* the arguments of a later call in the same process
Recalls ==
    {[template |-> Var(kK), context |-> <<Entry(kK, VStr(<<"s">>))>>,
      now |-> [day |-> 19783, hour |-> 9, minute |-> 5]],
     [template |-> Var(K_TODAY), context |-> <<>>,
      now |-> [day |-> 20089, hour |-> 23, minute |-> 59]],
     [template |-> Var(kK), context |-> <<Entry(kK, Inf)>>,
      now |-> [day |-> 19783, hour |-> 9, minute |-> 5]],
     [template |-> BracketTemplate,
      context |-> <<Entry(kXs, VList(<<VDict(<<Entry(kA, VStr(<<"A">>))>>)>>)),
                    Entry(kO, VStr(<<"O">>))>>,
      now |-> CHOOSE i \in Instants : TRUE]}

\* render_template is called again after it has returned or raised; the
\* locals of the earlier call are gone, and Enter assigns them afresh
Call ==
    /\ pc \in {"done", "raised"}
    /\ calls < MaxCalls
    /\ \E in \in Recalls :
          /\ template' = in.template
          /\ context' = in.context
          /\ now' = in.now
    /\ pc' = "start"
    /\ calls' = calls + 1
    /\ UNCHANGED <<ctx, result, otherThanRender>>

Next == Enter \/ IterationStage \/ ConditionalStage \/ VariableStage \/ Call

Spec == Init /\ [][Next]_vars

(***************************************************************************)
(* run_audit (retail_audit.py).  An optional entry of a dict is a set: empty *)
(* when the key is absent, the value alone when it is present.  A store is  *)
(* given by the values _field reads from it, its default where the field is *)
(* absent.                                                                  *)
(***************************************************************************)
\* d.get(key, default) for an optional entry
GetOr(opt, default) == IF opt = {} THEN default ELSE CHOOSE v \in opt : TRUE

\* the keys registered by @rule_checker that the configurations below name
RULE_CHECKERS == {"negative_inventory", "zero_sales", "target_achievement_low"}

\* _check_negative_inventory: a result when stock < 0
_check_negative_inventory(store, t) == store.current_stock < 0

\* _check_zero_sales: a result when sales == 0 and the store is open
_check_zero_sales(store, t) == store.actual_sales = 0 /\ store.status = "open"

\* _check_target_achievement_low: None when target <= 0, else a result when
\* actual / target < achievement_min (a threshold in percent, default 0.60)
_check_target_achievement_low(store, t) ==
    /\ store.target_sales > 0
    /\ store.actual_sales * 100 < GetOr(t, 60) * store.target_sales

\* checker(store, ctx, thresholds, fm) is truthy
checker(key, store, t) ==
    CASE key = "negative_inventory"     -> _check_negative_inventory(store, t)
      [] key = "zero_sales"             -> _check_zero_sales(store, t)
      [] key = "target_achievement_low" -> _check_target_achievement_low(store, t)

\* cfg.get("scoring", {...})
DefaultScoring ==
    [critical_penalty |-> 25, warning_penalty |-> 10, info_penalty |-> 3]

scoring == GetOr(config.scoring, DefaultScoring)

\* scoring.get(f"{level}_penalty", 0)
penalty_or_zero(level) ==
    LET key == level \o "_penalty" IN
    IF key \in DOMAIN scoring THEN scoring[key] ELSE 0

\* scoring.get(f"{level}_penalty", 10)
penalty(level) ==
    LET key == level \o "_penalty" IN
    IF key \in DOMAIN scoring THEN scoring[key] ELSE 10

\* score = 100; for a in store_alerts: score -= penalty of a's level
RECURSIVE score(_)
score(alerts) ==
    IF alerts = <<>> THEN 100
    ELSE score(SubSeq(alerts, 1, Len(alerts) - 1)) - penalty(alerts[Len(alerts)].level)

\* max(0, score)
Max0(n) == IF n < 0 THEN 0 ELSE n

\* report["summary"][level] = report["summary"].get(level, 0) + 1
SummaryInc(summary, level) ==
    IF level \in DOMAIN summary THEN [summary EXCEPT ![level] = @ + 1]
    ELSE (level :> 1) @@ summary

\* an entry put behind the entries of the same or a lower score
RECURSIVE InsertByScore(_, _)
InsertByScore(sorted, e) ==
    IF sorted = <<>> THEN <<e>>
    ELSE IF Head(sorted).score <= e.score THEN <<Head(sorted)>> \o InsertByScore(Tail(sorted), e)
    ELSE <<e>> \o sorted

\* list.sort(key=lambda x: x["score"]): ascending and stable
RECURSIVE SortByScore(_)
SortByScore(entries) ==
    IF entries = <<>> THEN <<>>
    ELSE InsertByScore(SortByScore(SubSeq(entries, 1, Len(entries) - 1)),
                       entries[Len(entries)])

MaxStores == 2

Store(name, stock, sales, target, status) ==
    [name |-> name, current_stock |-> stock, actual_sales |-> sales,
     target_sales |-> target, status |-> status]

\* a healthy store, a negative stock, no sales, a closed store, a store that
\* gives its stock alone (the other fields at the defaults of _field), and
\* sales at 70 % of the target
StorePool ==
    {Store("A", 5, 100, 100, "open"), Store("B", -1, 100, 100, "open"),
     Store("C", 5, 0, 100, "open"), Store("D", 5, 0, 0, "closed"),
     Store("E", -5, 0, 0, "open"), Store("A", 5, 70, 100, "open")}

StoreLists == SeqsUpTo(StorePool, MaxStores)

Rule(key, enabled, level, name, t) ==
    [key |-> key, enabled |-> enabled, level |-> level, name |-> name, thresholds |-> t]

\* the three rules as the built-in defaults have them
DefaultRules ==
    <<Rule("negative_inventory", {TRUE}, {"critical"}, {"neg"}, {}),
      Rule("zero_sales", {TRUE}, {"critical"}, {"zero"}, {}),
      Rule("target_achievement_low", {TRUE}, {"critical"}, {"low"}, {60})>>

Configs ==
    {[rules |-> DefaultRules, scoring |-> {}],
     [rules |-> <<Rule("negative_inventory", {}, {"warning"}, {}, {}),
                  Rule("zero_sales", {FALSE}, {"critical"}, {"zero"}, {}),
                  Rule("target_achievement_low", {TRUE}, {}, {"low"}, {})>>,
      scoring |-> {[critical_penalty |-> 60, warning_penalty |-> 60]}],
     [rules |-> <<Rule("negative_inventory", {TRUE}, {"urgent"}, {"neg"}, {}),
                  Rule("unknown_rule", {TRUE}, {"critical"}, {"unknown"}, {}),
                  Rule("target_achievement_low", {TRUE}, {"info"}, {"low"}, {90})>>,
      scoring |-> {DefaultScoring}],
     [rules |-> <<Rule("negative_inventory", {TRUE}, {"urgent"}, {"neg"}, {}),
                  Rule("zero_sales", {TRUE}, {"critical"}, {"zero"}, {})>>,
      scoring |-> {[urgent_penalty |-> -5, critical_penalty |-> 200]}],
     [rules |-> <<Rule("negative_inventory", {TRUE}, {"healthy"}, {"neg"}, {})>>,
      scoring |-> {}],
     [rules |-> <<>>, scoring |-> {}]}

rules_cfg == config.rules

\* run_audit is called: the report before the loop over the stores
AuditInit ==
    /\ \E s \in StoreLists, c \in Configs : stores = s /\ config = c
    /\ report = [total_stores |-> Len(stores),
                 summary |-> [critical |-> 0, warning |-> 0, info |-> 0, healthy |-> 0],
                 alerts |-> <<>>,
                 store_scores |-> <<>>]
    /\ store_alerts = <<>>
    /\ si = 1
    /\ ri = 1
    /\ apc = "store"
    /\ RenderIdle
    /\ BatchIdle
    /\ JobsIdle
    /\ TokenIdle
    /\ PagesIdle
    /\ ImportIdle

\* for store in stores: store_alerts = []
EnterStore ==
    /\ apc = "store"
    /\ si <= Len(stores)
    /\ store_alerts' = <<>>
    /\ ri' = 1
    /\ apc' = "rule"
    /\ UNCHANGED <<stores, config, report, si, otherThanAudit>>

\* the iteration without the test of enabled
CheckRuleAlways ==
    /\ apc = "rule"
    /\ ri <= Len(rules_cfg)
    /\ LET rule_cfg == rules_cfg[ri]
           store == stores[si]
           level == GetOr(rule_cfg.level, "warning")
           fires == /\ rule_cfg.key \in RULE_CHECKERS
                    /\ checker(rule_cfg.key, store, rule_cfg.thresholds)
       IN IF fires
          THEN /\ store_alerts' = Append(store_alerts,
                                         [store |-> store.name,
                                          kind |-> GetOr(rule_cfg.name, rule_cfg.key),
                                          level |-> level])
               /\ report' = [report EXCEPT !.summary = SummaryInc(@, level)]
          ELSE UNCHANGED <<store_alerts, report>>
    /\ ri' = ri + 1
    /\ UNCHANGED <<stores, config, si, apc, otherThanAudit>>

\* one iteration of: for rule_key, rule_cfg in rules_cfg.items()
CheckRule ==
    /\ apc = "rule"
    /\ ri <= Len(rules_cfg)
    /\ LET rule_cfg == rules_cfg[ri]
           store == stores[si]
           level == GetOr(rule_cfg.level, "warning")
           fires == /\ GetOr(rule_cfg.enabled, TRUE)
                    /\ rule_cfg.key \in RULE_CHECKERS
                    /\ checker(rule_cfg.key, store, rule_cfg.thresholds)
       IN IF fires
          THEN /\ store_alerts' = Append(store_alerts,
                                         [store |-> store.name,
                                          kind |-> GetOr(rule_cfg.name, rule_cfg.key),
                                          level |-> level])
               /\ report' = [report EXCEPT !.summary = SummaryInc(@, level)]
          ELSE UNCHANGED <<store_alerts, report>>
    /\ ri' = ri + 1
    /\ UNCHANGED <<stores, config, si, apc, otherThanAudit>>

\* after the rules of a store: the alerts or the healthy counter, then the
\* score of the store
ScoreStore ==
    /\ apc = "rule"
    /\ ri > Len(rules_cfg)
    /\ report' =
          [report EXCEPT
              !.alerts = @ \o store_alerts,
              !.summary = IF store_alerts = <<>>
                          THEN [@ EXCEPT !["healthy"] = @ + 1] ELSE @,
              !.store_scores = Append(@, [store |-> stores[si].name,
                                          score |-> Max0(score(store_alerts)),
                                          count |-> Len(store_alerts)])]
    /\ si' = si + 1
    /\ apc' = "store"
    /\ UNCHANGED <<stores, config, store_alerts, ri, otherThanAudit>>

\* report["store_scores"].sort(key=...); return report
SortScores ==
    /\ apc = "store"
    /\ si > Len(stores)
    /\ report' = [report EXCEPT !.store_scores = SortByScore(@)]
    /\ apc' = "returned"
    /\ UNCHANGED <<stores, config, store_alerts, si, ri, otherThanAudit>>

AuditNext == EnterStore \/ CheckRule \/ ScoreStore \/ SortScores

AuditSpec == AuditInit /\ [][AuditNext]_vars

(***************************************************************************)
(* batch_create and batch_update (bitable_engine.py).  The two differ in   *)
(* the API function they call and in the keys of the dict they return; op  *)
(* says which runs.  A record is given by its position in the input, and   *)
(* sent lists the chunks the API was called with.                          *)
(***************************************************************************)
ChunkSize == 500

MaxChunks == 2

\* lengths of the input around the edges of the chunks
Sizes ==
    0..4 \cup {k * ChunkSize + d : k \in 1..MaxChunks, d \in {-1, 0, 1}}

total == Len(records)

\* "created" / "updated" and "would_create" / "would_update"
CountKey == IF op = "create" THEN "created" ELSE "updated"
WouldKey == IF op = "create" THEN "would_create" ELSE "would_update"

Min(a, b) == IF a < b THEN a ELSE b

\* records[i : i + 500]
chunk == SubSeq(records, offset + 1, Min(offset + ChunkSize, total))

\* records[:3]
sample == SubSeq(records, 1, Min(3, total))

BatchInit ==
    /\ \E o \in {"create", "update"}, n \in Sizes, d \in BOOLEAN :
          /\ op = o
          /\ records = [k \in 1..n |-> k]
          /\ dry_run = d
    /\ offset = 0 /\ created = 0 /\ errors = <<>> /\ sent = <<>>
    /\ bpc = "call" /\ ret = <<>>
    /\ RenderIdle
    /\ AuditIdle
    /\ JobsIdle
    /\ TokenIdle
    /\ PagesIdle
    /\ ImportIdle

\* if total == 0: return {"created": 0, "message": ...}
ReturnEmpty ==
    /\ bpc = "call"
    /\ total = 0
    /\ ret' = (CountKey :> 0) @@ ("message" :> "nothing to do")
    /\ bpc' = "returned"
    /\ UNCHANGED <<op, records, dry_run, offset, created, errors, sent, otherThanBatch>>

\* if dry_run: return {"would_create": total, "sample": records[:3]}
ReturnDryRun ==
    /\ bpc = "call"
    /\ total # 0
    /\ dry_run
    /\ ret' = (WouldKey :> total) @@ ("sample" :> sample)
    /\ bpc' = "returned"
    /\ UNCHANGED <<op, records, dry_run, offset, created, errors, sent, otherThanBatch>>

\* the loop entered whatever dry_run says
EnterLoopDry ==
    /\ bpc = "call"
    /\ total # 0
    /\ created' = 0
    /\ errors' = <<>>
    /\ offset' = 0
    /\ bpc' = "loop"
    /\ UNCHANGED <<op, records, dry_run, sent, ret, otherThanBatch>>

\* created = 0; errors = []; for i in range(0, total, 500)
EnterLoop ==
    /\ bpc = "call"
    /\ total # 0
    /\ ~dry_run
    /\ created' = 0
    /\ errors' = <<>>
    /\ offset' = 0
    /\ bpc' = "loop"
    /\ UNCHANGED <<op, records, dry_run, sent, ret, otherThanBatch>>

\* the API call returns: created += len(chunk)
SendChunkOk ==
    /\ bpc = "loop"
    /\ offset < total
    /\ sent' = Append(sent, chunk)
    /\ created' = created + Len(chunk)
    /\ offset' = offset + ChunkSize
    /\ UNCHANGED <<op, records, dry_run, errors, bpc, ret, otherThanBatch>>

\* the loop left at the first chunk that fails
SendChunkFailStop ==
    /\ bpc = "loop"
    /\ offset < total
    /\ sent' = Append(sent, chunk)
    /\ errors' = Append(errors, [offset |-> offset, count |-> Len(chunk), error |-> "error"])
    /\ offset' = total
    /\ UNCHANGED <<op, records, dry_run, created, bpc, ret, otherThanBatch>>

\* the API call raises: errors.append({"offset": i, "count": len(chunk), ...})
SendChunkFail ==
    /\ bpc = "loop"
    /\ offset < total
    /\ sent' = Append(sent, chunk)
    /\ errors' = Append(errors, [offset |-> offset, count |-> Len(chunk), error |-> "error"])
    /\ offset' = offset + ChunkSize
    /\ UNCHANGED <<op, records, dry_run, created, bpc, ret, otherThanBatch>>

\* return {"created": created, "total": total, "errors": errors}
ReturnTotals ==
    /\ bpc = "loop"
    /\ offset >= total
    /\ ret' = (CountKey :> created) @@ ("total" :> total) @@ ("errors" :> errors)
    /\ bpc' = "returned"
    /\ UNCHANGED <<op, records, dry_run, offset, created, errors, sent, otherThanBatch>>

BatchNext ==
    ReturnEmpty \/ ReturnDryRun \/ EnterLoop \/ SendChunkOk \/ SendChunkFail \/ ReturnTotals

BatchSpec == BatchInit /\ [][BatchNext]_vars

(***************************************************************************)
(* The scheduler (report_generator.py).  Time is counted in hours from     *)
(* midnight of day 0; the minutes of the configured time are zero.  The    *)
(* clock moves in steps of TickHours, between the calls and during them:   *)
(* is_job_due reads datetime.now() when the job is looked at, and          *)
(* run_due_jobs reads it again after the runner has come back.             *)
(***************************************************************************)
HoursPerDay == 24

TickHours == 8

MaxDays == 2

MaxRuns == 2

\* datetime.date() and the hour of the day
DateOf(t) == t \div HoursPerDay
HourOf(t) == t % HoursPerDay

\* isoweekday() and .day, with day 0 the Monday that opens a month
IsoWeekday(t) == (DateOf(t) % 7) + 1
DayOfMonth(t) == DateOf(t) + 1

REPORT_RUNNERS == {"audit", "template", "custom"}

\* a job of the schedule file; enabled and type are optional entries
Job(id, enabled, type, schedule) ==
    [id |-> id, enabled |-> enabled, type |-> type, schedule |-> schedule]

Daily(h) == [frequency |-> "daily", time |-> h]
Hourly(n) == [frequency |-> "hourly", interval_hours |-> n]
Weekly(d, h) == [frequency |-> "weekly", day_of_week |-> d, time |-> h]
Monthly(d, h) == [frequency |-> "monthly", day_of_month |-> d, time |-> h]

\* state[job_id] = {"last_run": ..., "last_status": ...}
StateEntry(t, status) == [last_run |-> t, last_status |-> status]

NoState == [k \in {} |-> StateEntry(0, "success")]

Put(st, k, v) == [x \in DOMAIN st \cup {k} |-> IF x = k THEN v ELSE st[x]]

is_job_due(job, st, t) ==
    LET schedule == job.schedule
        freq == schedule.frequency
        has_last_run == job.id \in DOMAIN st
        last_run == st[job.id].last_run
        today == has_last_run /\ DateOf(last_run) = DateOf(t)
    IN  CASE freq = "hourly" ->
                IF ~has_last_run THEN TRUE
                ELSE t - last_run >= schedule.interval_hours
          [] freq = "daily" ->
                IF HourOf(t) < schedule.time THEN FALSE ELSE ~today
          [] freq = "weekly" ->
                IF IsoWeekday(t) # schedule.day_of_week THEN FALSE
                ELSE IF HourOf(t) < schedule.time THEN FALSE ELSE ~today
          [] freq = "monthly" ->
                IF DayOfMonth(t) # schedule.day_of_month THEN FALSE
                ELSE IF HourOf(t) < schedule.time THEN FALSE ELSE ~today
          [] OTHER -> FALSE

\* the schedules: two daily jobs; a job of unknown type and a disabled one
\* among two daily jobs; two jobs under one id; the other frequencies
Schedules ==
    { << Job("a", {}, {}, Daily(8)), Job("b", {TRUE}, {"template"}, Daily(0)) >>,
      << Job("c", {}, {"pdf"}, Daily(0)), Job("a", {}, {"custom"}, Daily(16)),
         Job("d", {FALSE}, {}, Daily(0)), Job("b", {}, {"template"}, Daily(0)) >>,
      << Job("a", {}, {}, Daily(8)), Job("a", {}, {}, Daily(16)) >>,
      << Job("h", {}, {}, Hourly(16)), Job("w", {}, {}, Weekly(2, 8)),
         Job("m", {}, {}, Monthly(2, 0)) >> }

\* the state file before the first call: absent, or with entries written
\* when c and d were still run
StateFiles ==
    { NoState,
      ("c" :> StateEntry(0, "success")) @@ ("d" :> StateEntry(0, "error")) }

\* force_job: absent, or the id of the first job of the schedule
ForceChoices == {"", jobs[1].id}

job == jobs[ji]

job_id == job.id

enabled == GetOr(job.enabled, TRUE)

runner_known == GetOr(job.type, "audit") \in REPORT_RUNNERS

\* the three filters in front of the runner lookup
selected ==
    /\ enabled
    /\ force_job # "" => job_id = force_job
    /\ force_job = "" => is_job_due(job, state, clock)

JobsInit ==
    /\ jobs \in Schedules
    /\ state_file \in StateFiles
    /\ clock = 0 /\ force_job = ""
    /\ state = <<>> /\ results = <<>> /\ ji = 1 /\ jpc = "idle"
    /\ loaded = <<>> /\ started = 0 /\ last_invoked = <<>> /\ forced_ever = FALSE
    /\ saves = 0 /\ runs = 0
    /\ RenderIdle
    /\ AuditIdle
    /\ BatchIdle
    /\ TokenIdle
    /\ PagesIdle
    /\ ImportIdle

\* time passes, between the calls and while a runner is at work
Tick ==
    /\ jpc \in {"idle", "running", "returned"}
    /\ clock + TickHours < MaxDays * HoursPerDay
    /\ clock' = clock + TickHours
    /\ UNCHANGED <<jobs, state_file, force_job, state, results, ji, jpc, loaded,
                   started, last_invoked, forced_ever, saves, runs, otherThanJobs>>

\* jobs = load_schedule(...); state = load_state(); results = []
StartRun ==
    /\ jpc \in {"idle", "returned"}
    /\ runs < MaxRuns
    /\ \E f \in ForceChoices : force_job' = f
    /\ state' = state_file
    /\ loaded' = state_file
    /\ results' = <<>>
    /\ ji' = 1
    /\ started' = clock
    /\ saves' = 0
    /\ runs' = runs + 1
    /\ jpc' = "loop"
    /\ UNCHANGED <<jobs, state_file, clock, last_invoked, forced_ever, otherThanJobs>>

\* the four continue statements
SkipJob ==
    /\ jpc = "loop"
    /\ ji <= Len(jobs)
    /\ ~selected \/ ~runner_known
    /\ ji' = ji + 1
    /\ UNCHANGED <<jobs, state_file, clock, force_job, state, results, jpc, loaded,
                   started, last_invoked, forced_ever, saves, runs, otherThanJobs>>

\* output = runner(job) is entered
StartRunner ==
    /\ jpc = "loop"
    /\ ji <= Len(jobs)
    /\ selected /\ runner_known
    /\ last_invoked' = Put(last_invoked, job_id, clock)
    /\ forced_ever' = (forced_ever \/ force_job # "")
    /\ jpc' = "running"
    /\ UNCHANGED <<jobs, state_file, clock, force_job, state, results, ji, loaded,
                   started, saves, runs, otherThanJobs>>

\* the runner returns: results.append(output); state[job_id] = {...}
RunnerReturns ==
    /\ jpc = "running"
    /\ results' = Append(results, [job_id |-> job_id, status |-> "success"])
    /\ state' = Put(state, job_id, StateEntry(clock, "success"))
    /\ ji' = ji + 1
    /\ jpc' = "loop"
    /\ UNCHANGED <<jobs, state_file, clock, force_job, loaded, started,
                   last_invoked, forced_ever, saves, runs, otherThanJobs>>

\* the runner raises and the loop is left
RunnerRaisesStop ==
    /\ jpc = "running"
    /\ results' = Append(results, [job_id |-> job_id, status |-> "error"])
    /\ state' = Put(state, job_id, StateEntry(clock, "error"))
    /\ ji' = Len(jobs) + 1
    /\ jpc' = "loop"
    /\ UNCHANGED <<jobs, state_file, clock, force_job, loaded, started,
                   last_invoked, forced_ever, saves, runs, otherThanJobs>>

\* the runner raises: except Exception, and on to the next job
RunnerRaises ==
    /\ jpc = "running"
    /\ results' = Append(results, [job_id |-> job_id, status |-> "error"])
    /\ state' = Put(state, job_id, StateEntry(clock, "error"))
    /\ ji' = ji + 1
    /\ jpc' = "loop"
    /\ UNCHANGED <<jobs, state_file, clock, force_job, loaded, started,
                   last_invoked, forced_ever, saves, runs, otherThanJobs>>

\* save_state(state); return results
SaveState ==
    /\ jpc = "loop"
    /\ ji > Len(jobs)
    /\ state_file' = state
    /\ saves' = saves + 1
    /\ jpc' = "returned"
    /\ UNCHANGED <<jobs, clock, force_job, state, results, ji, loaded, started,
                   last_invoked, forced_ever, runs, otherThanJobs>>

JobsNext ==
    \/ Tick
    \/ StartRun
    \/ SkipJob
    \/ StartRunner
    \/ RunnerReturns
    \/ RunnerRaises
    \/ SaveState

JobsSpec == JobsInit /\ [][JobsNext]_vars

(***************************************************************************)
(* get_token (feishu_api.py).  Tokens are numbered from 1 in the order the *)
(* server gives them out; 0 stands for None.  A response is the parsed     *)
(* body, or HttpFailure when raise_for_status raises.  The server counts   *)
(* the lifetime of a token from the moment it answers.                     *)
(***************************************************************************)
Margin == 60

DefaultExpire == 7200

MaxTicks == 5

MaxTokens == 2

\* the pace of time.time(): half a minute, or close to two hours
TimeSteps == {30, 7080}

\* the "expire" entry of a response: absent, or a number of seconds
Lifetimes == {{}, {60}, {120}}

\* data = resp.json()
Body(code, tok, expire) ==
    [code |-> code, tenant_access_token |-> tok, expire |-> expire]

\* what resp stands for when raise_for_status raises
HttpFailure == [http_error |-> TRUE]

\* _token_cache["token"] and _token_cache["expires_at"] > now + 60
cache_fresh(t) ==
    _token_cache.token # 0 /\ _token_cache.expires_at > t + Margin

TokenInit ==
    /\ wall = 0 /\ ticks = 0
    /\ _token_cache = [token |-> 0, expires_at |-> 0] /\ t_now = 0
    /\ tpc = "idle" /\ resp = <<>> /\ token = 0 /\ posts = 0
    /\ valid_until = 0 /\ issued = 0
    /\ RenderIdle
    /\ AuditIdle
    /\ BatchIdle
    /\ JobsIdle
    /\ PagesIdle
    /\ ImportIdle

\* time passes, between the calls and while the request is under way
TokenTick ==
    /\ tpc \in {"idle", "posted"}
    /\ ticks < MaxTicks
    /\ \E d \in TimeSteps : wall' = wall + d
    /\ ticks' = ticks + 1
    /\ UNCHANGED <<_token_cache, t_now, tpc, resp, token, posts, valid_until,
                   issued, otherThanToken>>

\* the cached token is returned however close its expiry is
ReturnCachedNoMargin ==
    /\ tpc = "idle"
    /\ _token_cache.token # 0 /\ _token_cache.expires_at > wall
    /\ t_now' = wall
    /\ token' = _token_cache.token
    /\ tpc' = "returned"
    /\ UNCHANGED <<wall, ticks, _token_cache, resp, posts, valid_until, issued,
                   otherThanToken>>

\* now = time.time(); if ...: return _token_cache["token"]
ReturnCached ==
    /\ tpc = "idle"
    /\ cache_fresh(wall)
    /\ t_now' = wall
    /\ token' = _token_cache.token
    /\ tpc' = "returned"
    /\ UNCHANGED <<wall, ticks, _token_cache, resp, posts, valid_until, issued,
                   otherThanToken>>

\* now = time.time(); resp = requests.post(...)
PostRequest ==
    /\ tpc = "idle"
    /\ ~cache_fresh(wall)
    /\ t_now' = wall
    /\ posts' = 1
    /\ tpc' = "posted"
    /\ UNCHANGED <<wall, ticks, _token_cache, resp, token, valid_until, issued,
                   otherThanToken>>

\* resp.raise_for_status() raises
HttpError ==
    /\ tpc = "posted"
    /\ resp' = HttpFailure
    /\ tpc' = "raised"
    /\ UNCHANGED <<wall, ticks, _token_cache, t_now, token, posts, valid_until,
                   issued, otherThanToken>>

\* data.get("code") != 0: raise Exception(...)
CodeNonZero ==
    /\ tpc = "posted"
    /\ \E c \in {1, 99991663} : resp' = Body(c, 0, {})
    /\ tpc' = "raised"
    /\ UNCHANGED <<wall, ticks, _token_cache, t_now, token, posts, valid_until,
                   issued, otherThanToken>>

\* the server gives out a token; the cache is set and the token returned
TokenGranted ==
    /\ tpc = "posted"
    /\ issued < MaxTokens
    /\ \E e \in Lifetimes :
          /\ resp' = Body(0, issued + 1, e)
          /\ _token_cache' = [token |-> issued + 1,
                              expires_at |-> t_now + GetOr(e, DefaultExpire)]
          /\ valid_until' = wall + GetOr(e, DefaultExpire)
    /\ issued' = issued + 1
    /\ token' = issued + 1
    /\ tpc' = "returned"
    /\ UNCHANGED <<wall, ticks, t_now, posts, otherThanToken>>

\* the caller goes on; the locals of the call are gone
LeaveGetToken ==
    /\ tpc \in {"returned", "raised"}
    /\ t_now' = 0 /\ resp' = <<>> /\ token' = 0 /\ posts' = 0
    /\ tpc' = "idle"
    /\ UNCHANGED <<wall, ticks, _token_cache, valid_until, issued, otherThanToken>>

TokenNext ==
    \/ TokenTick
    \/ ReturnCached
    \/ PostRequest
    \/ HttpError
    \/ CodeNonZero
    \/ TokenGranted
    \/ LeaveGetToken

TokenSpec == TokenInit /\ [][TokenNext]_vars

(***************************************************************************)
(* bitable_list_all_records (feishu_api.py).  The server holds the records *)
(* of the table in pages; the token of page k is k, and 0 stands for None. *)
(* To a request for page k the server answers with the page, or with an    *)
(* empty page that asks for the same request again, or _get raises.        *)
(***************************************************************************)
PageSize == 500

MaxPages == 3

MaxPageLen == 2

\* the records of the table are numbered in the order the server lists them
RECURSIVE Paged(_, _)
Paged(sizes, first) ==
    IF sizes = <<>> THEN <<>>
    ELSE <<[i \in 1..Head(sizes) |-> first + i - 1]>>
         \o Paged(Tail(sizes), first + Head(sizes))

Tables ==
    UNION {{Paged(sizes, 1) : sizes \in [1..n -> 0..MaxPageLen]} : n \in 1..MaxPages}

\* data of a response; each entry may be missing
Data(items, more, next) ==
    [items |-> items, has_more |-> more, page_token |-> next]

\* bitable_list_records: params["page_token"] only if page_token
params(pt) ==
    [page_size |-> PageSize, page_token |-> IF pt # 0 THEN {pt} ELSE {}]

\* the page a request asks for
asked == GetOr(request.params.page_token, 1)

\* not data.get("has_more")
has_more == GetOr(data.has_more, FALSE)

PagesInit ==
    /\ table \in Tables
    /\ all_records = <<>> /\ page_token = 0
    /\ request = <<>> /\ data = <<>> /\ lpc = "loop"
    /\ RenderIdle
    /\ AuditIdle
    /\ BatchIdle
    /\ JobsIdle
    /\ TokenIdle
    /\ ImportIdle

\* data = bitable_list_records(app_token, table_id, 500, page_token, ...)
RequestPage ==
    /\ lpc = "loop"
    /\ request' = [page_size |-> PageSize, page_token |-> page_token,
                   params |-> params(page_token)]
    /\ lpc' = "waiting"
    /\ UNCHANGED <<table, all_records, page_token, data, otherThanPages>>

\* the server answers with the page asked for
RespondPage ==
    /\ lpc = "waiting"
    /\ asked \in 1..Len(table)
    /\ \E items \in {{table[asked]}} \cup (IF table[asked] = <<>> THEN {{}} ELSE {}),
          more \in IF asked < Len(table) THEN {{TRUE}} ELSE {{FALSE}, {}} :
          data' = Data(items, more, IF asked < Len(table) THEN {asked + 1} ELSE {})
    /\ lpc' = "got"
    /\ UNCHANGED <<table, all_records, page_token, request, otherThanPages>>

\* the server answers with no items and asks for the same request again
RespondRetry ==
    /\ lpc = "waiting"
    /\ data' = Data({<<>>}, {TRUE}, request.params.page_token)
    /\ lpc' = "got"
    /\ UNCHANGED <<table, all_records, page_token, request, otherThanPages>>

\* _get raises (HTTP error or code != 0)
RespondError ==
    /\ lpc = "waiting"
    /\ lpc' = "raised"
    /\ UNCHANGED <<table, all_records, page_token, request, data, otherThanPages>>

\* the loop is left after the first page
LastPageAlways ==
    /\ lpc = "got"
    /\ all_records' = all_records \o GetOr(data.items, <<>>)
    /\ lpc' = "returned"
    /\ UNCHANGED <<table, page_token, request, data, otherThanPages>>

\* all_records.extend(items); if not data.get("has_more"): break
LastPage ==
    /\ lpc = "got"
    /\ ~has_more
    /\ all_records' = all_records \o GetOr(data.items, <<>>)
    /\ lpc' = "returned"
    /\ UNCHANGED <<table, page_token, request, data, otherThanPages>>

\* all_records.extend(items); page_token = data.get("page_token")
NextPage ==
    /\ lpc = "got"
    /\ has_more
    /\ all_records' = all_records \o GetOr(data.items, <<>>)
    /\ page_token' = GetOr(data.page_token, 0)
    /\ lpc' = "loop"
    /\ UNCHANGED <<table, request, data, otherThanPages>>

PagesNext ==
    \/ RequestPage
    \/ RespondPage
    \/ RespondRetry
    \/ RespondError
    \/ LastPage
    \/ NextPage

\* the function runs on as long as it can: its own steps are not held back
PagesSpec ==
    /\ PagesInit
    /\ [][PagesNext]_vars
    /\ WF_vars(RequestPage) /\ WF_vars(LastPage) /\ WF_vars(NextPage)

(***************************************************************************)
(* _import (report_generator.py).  The environment is a function from the  *)
(* names that are set to their values.                                     *)
(***************************************************************************)
APP_ID == "FEISHU_APP_ID"
APP_SECRET == "FEISHU_APP_SECRET"
Placeholder == "_placeholder_"

\* each credential unset, set to the empty string, or set
Environments ==
    UNION {[keys -> {"", "cli_x"}] : keys \in SUBSET {APP_ID, APP_SECRET}}

ModuleNames == {"feishu_api", "bitable_engine", "retail_audit"}

\* os.environ.get(key), None read as ""
EnvGet(env, key) == IF key \in DOMAIN env THEN env[key] ELSE ""

\* os.environ.pop(key, None)
EnvPop(env, key) == [k \in DOMAIN env \ {key} |-> env[k]]

ImportInit ==
    /\ environ \in Environments
    /\ _modules = {} /\ mod_name = "" /\ patched = FALSE
    /\ environ0 = <<>> /\ ipc = "idle"
    /\ RenderIdle
    /\ AuditIdle
    /\ BatchIdle
    /\ JobsIdle
    /\ TokenIdle
    /\ PagesIdle

AtImportCall == ipc \in {"idle", "returned", "raised"}

\* if name in _modules: return _modules[name]
ReturnModule ==
    /\ AtImportCall
    /\ \E nm \in _modules : mod_name' = nm
    /\ patched' = FALSE
    /\ environ0' = environ
    /\ ipc' = "returned"
    /\ UNCHANGED <<environ, _modules, otherThanImport>>

\* if not os.environ.get("FEISHU_APP_ID"): both are set to the placeholder
PatchEnviron ==
    /\ AtImportCall
    /\ \E nm \in ModuleNames \ _modules : mod_name' = nm
    /\ EnvGet(environ, APP_ID) = ""
    /\ environ0' = environ
    /\ environ' = Put(Put(environ, APP_ID, Placeholder), APP_SECRET, Placeholder)
    /\ patched' = TRUE
    /\ ipc' = "importing"
    /\ UNCHANGED <<_modules, otherThanImport>>

\* FEISHU_APP_ID is set: the environment is left alone
KeepEnviron ==
    /\ AtImportCall
    /\ \E nm \in ModuleNames \ _modules : mod_name' = nm
    /\ EnvGet(environ, APP_ID) # ""
    /\ environ0' = environ
    /\ patched' = FALSE
    /\ ipc' = "importing"
    /\ UNCHANGED <<environ, _modules, otherThanImport>>

\* mod = __import__(name) raises
ImportRaises ==
    /\ ipc = "importing"
    /\ ipc' = "raised"
    /\ UNCHANGED <<environ, _modules, mod_name, patched, environ0, otherThanImport>>

\* the module is cached; if patched: both credentials are popped
ImportReturns ==
    /\ ipc = "importing"
    /\ _modules' = _modules \cup {mod_name}
    /\ environ' = IF patched THEN EnvPop(EnvPop(environ, APP_ID), APP_SECRET)
                  ELSE environ
    /\ ipc' = "returned"
    /\ UNCHANGED <<mod_name, patched, environ0, otherThanImport>>

\* the caller sets or clears a credential between two calls
SetEnviron ==
    /\ AtImportCall
    /\ \E env \in Environments : environ' = env
    /\ ipc' = "idle"
    /\ UNCHANGED <<_modules, mod_name, patched, environ0, otherThanImport>>

ImportNext ==
    \/ ReturnModule
    \/ PatchEnviron
    \/ KeepEnviron
    \/ ImportRaises
    \/ ImportReturns
    \/ SetEnviron

ImportSpec == ImportInit /\ [][ImportNext]_vars
(***************************************************************************)
(* Properties.                                                             *)
(***************************************************************************)
Done == pc = "done"

\* the context is exactly {key: v}
Binds(key) == Len(context) = 1 /\ context[1].k = key

\* the five values the truthiness law names: Null, false, 0, "" and []
NamedFalsy(v) ==
    \/ v.t = "none"
    \/ v.t = "bool" /\ ~v.b
    \/ v.t = "int" /\ v.n = 0
    \/ v.t = "float" /\ v.c = 0
    \/ v.t = "str" /\ v.s = <<>>
    \/ v.t = "list" /\ v.l = <<>>

EmptyRecord(v) == v.t = "dict" /\ v.d = <<>>

\* C1 as stated: {{#if k}}X{{/if}} with context {k: v} renders "" when v is
\* Null, false, 0, "" or [], and "X" for every other value, any Record
\* included.
C1_TruthinessAsStated ==
    (Done /\ template = If(kK, <<"X">>) /\ Binds(kK))
        => result = (IF NamedFalsy(context[1].v) THEN <<>> ELSE <<"X">>)

\* C1 amended: {{#if k}}X{{/if}} with context {k: v} renders "" when v is
\* Null, false, 0, "", [] or the empty Record, and "X" for every other value.
C1_Truthiness ==
    (Done /\ template = If(kK, <<"X">>) /\ Binds(kK))
        => result = (IF NamedFalsy(context[1].v) \/ EmptyRecord(context[1].v)
                     THEN <<>> ELSE <<"X">>)

C1_Witness ==
    /\ Done /\ template = If(kK, <<"X">>) /\ Binds(kK)
    /\ context[1].v = VDict(<<Entry(kA, None)>>)
    /\ result = <<"X">>

\* C2: the stages run in the order iteration, conditional, variable, each
\* on the whole text the previous one produced: the text handed to the
\* conditional stage is the iteration pass of the template, the text handed
\* to the variable stage is the conditional pass of that, and the output is
\* the variable pass of that.
C2_StageOrder ==
    /\ pc = "each" => result = template
    /\ pc = "if" => result = IterationPass(template, ctx)
    /\ pc = "var" => result = ConditionalPass(IterationPass(template, ctx), ctx)
    /\ Done => result = VariablePass(ConditionalPass(IterationPass(template, ctx), ctx), ctx)

\* an each-block whose nested conditional names an item field: evaluated
\* against the outer context first, the conditional would be dropped
C2_Witness ==
    /\ Done
    /\ template = InnerIfTemplate
    /\ result = <<"[", "A", "]">>

\* the template is one {{k}} token with k an undotted identifier
IsToken(s) ==
    LET m == var_pattern(s, 1) IN
    m.ok /\ m.end = Len(s) + 1 /\ ~Contains(m.g1, <<".">>)

TokenKey(s) == var_pattern(s, 1).g1

BuiltinNames == {K_TODAY, K_YESTERDAY, K_WEEK_START, K_WEEK_END, K_NOW}

\* C3 as stated: for every identifier k and every caller context without
\* the key k, "{{k}}" renders to "{{k}}".
C3_UnresolvedAsStated ==
    (Done /\ IsToken(template) /\ ~DictHas(context, TokenKey(template)))
        => result = template

\* C3 amended: for every identifier k that is not a built-in name and every
\* caller context without the key k, "{{k}}" renders to "{{k}}".
C3_Unresolved ==
    (Done /\ IsToken(template) /\ ~DictHas(context, TokenKey(template))
          /\ TokenKey(template) \notin BuiltinNames)
        => result = template

C3_Witness ==
    /\ Done /\ template = Var(kK)
    /\ context = <<Entry(kO, VStr(<<"O">>))>>
    /\ result = Var(kK)

\* the value the caller binds to xs (None when it binds none)
Xs == DictGet(context, kXs)

\* the iteration stage has run
Expanded == pc \in {"if", "var", "done"}

\* an item all of whose field values are Null, "" or []
EmptyItem(item) ==
    /\ item.t = "dict"
    /\ \A i \in 1..Len(item.d) : item.d[i].v \in {None, VStr(<<>>), VList(<<>>)}

IsRecordList(v) == v.t = "list" /\ \A i \in 1..Len(v.l) : v.l[i].t = "dict"

\* a list of Records none of which is all-empty
IsFullRecordList(v) == IsRecordList(v) /\ \A i \in 1..Len(v.l) : ~EmptyItem(v.l[i])

\* the text of the field a of a Record item
FieldA(item) == _to_str(DictGet(item.d, kA))

\* C4 as stated: in an each-block over Records, an {{#if o}} block and an
\* {{o}} token whose o is a key of the outer context and no field of the
\* item are left intact by the iteration stage and resolved by the later
\* passes against the outer context.
C4_OuterDirectivesPassThrough ==
    (IsFullRecordList(Xs) /\ DictGet(context, kO) = VStr(<<"O">>))
    => /\ (pc = "if" /\ template = OuterIfTemplate)
            => result = Join([i \in 1..Len(Xs.l) |->
                                If(kO, <<"[">> \o FieldA(Xs.l[i]) \o <<"]">>)], <<NL>>)
       /\ (Done /\ template = OuterIfTemplate)
            => result = Join([i \in 1..Len(Xs.l) |->
                                <<"[">> \o FieldA(Xs.l[i]) \o <<"]">>], <<NL>>)
       /\ (pc = "if" /\ template = OuterVarTemplate)
            => result = Join([i \in 1..Len(Xs.l) |-> FieldA(Xs.l[i]) \o Var(kO)], <<NL>>)
       /\ (Done /\ template = OuterVarTemplate)
            => result = Join([i \in 1..Len(Xs.l) |-> FieldA(Xs.l[i]) \o <<"O">>], <<NL>>)

\* the Value-to-String rules of the formatting table, for a scalar
FormatScalar(v) ==
    CASE v.t = "none"  -> <<>>
      [] v.t = "float" -> (IF v.c % 100 = 0 THEN IntStr(v.c \div 100) ELSE Fixed2(v.c))
      [] v.t = "int"   -> IntStr(v.n)
      [] v.t = "bool"  -> (IF v.b THEN <<"T", "r", "u", "e">> ELSE <<"F", "a", "l", "s", "e">>)
      [] v.t = "str"   -> v.s

\* C5 as stated: a List is formatted as its elements' formatted texts (Null
\* as "", an integer-valued float without decimal point, another float with
\* two decimals, other scalars as their natural text) joined with ", ".
C5_ListFormatting ==
    (Done /\ template = Var(kK) /\ Binds(kK) /\ context[1].v.t = "list")
        => result = Join([i \in 1..Len(context[1].v.l) |->
                            FormatScalar(context[1].v.l[i])], <<",", " ">>)

\* the lines of {{#each xs}}[{{a}}]{{/each}} once the iteration stage ran
RECURSIVE BracketLines(_, _)
BracketLines(items, pad) ==
    IF items = <<>> THEN <<>>
    ELSE LET item == Head(items)
             rest == BracketLines(Tail(items), pad)
         IN IF EmptyItem(item) THEN rest
            ELSE IF item.t = "dict"
                 THEN <<pad \o <<"[">> \o FieldA(item) \o <<"]">> \o pad>> \o rest
            ELSE <<pad \o Bracketed \o pad>> \o rest

\* C6 as stated: exactly one leading and one trailing newline of the body
\* are stripped; a body with n newlines at each end keeps n - 1 of them in
\* every rendered copy.
C6_OneNewlineStripped ==
    \A n \in 1..MaxNewlines :
        (pc = "if" /\ template = NewlineTemplate(n) /\ Xs.t = "list")
            => result = Join(BracketLines(Xs.l, Newlines(n - 1)), <<NL>>)

\* C6 amended: every leading and every trailing newline of the body is
\* stripped; a body with n newlines at each end keeps none of them in any
\* rendered copy.
C6_NewlinesStripped ==
    \A n \in 1..MaxNewlines :
        (pc = "if" /\ template = NewlineTemplate(n) /\ Xs.t = "list")
            => result = Join(BracketLines(Xs.l, <<>>), <<NL>>)

C6_Witness ==
    /\ pc = "if" /\ template = NewlineTemplate(MaxNewlines)
    /\ Xs = VList(<<VDict(<<Entry(kA, VStr(<<"A">>))>>), VDict(<<Entry(kA, VInt(0))>>)>>)
    /\ result = <<"[", "A", "]", NL, "[", "0", "]">>

\* the text holds a complete {{#each path}}...{{/each}} span
HasEachSpan(s) == FindAll("each", s, 1) # <<>>

\* the template text outside the spans ms, from pos on: before, between and
\* after them
RECURSIVE Gaps(_, _, _)
Gaps(ms, s, pos) ==
    IF ms = <<>> THEN <<SubSeq(s, pos, Len(s))>>
    ELSE <<SubSeq(s, pos, ms[1].start - 1)>> \o Gaps(Tail(ms), s, ms[1].end)

EndsWith(s, p) == Len(p) <= Len(s) /\ SubSeq(s, Len(s) - Len(p) + 1, Len(s)) = p

\* C7 as stated: the text handed from the iteration stage to the
\* conditional stage contains no complete {{#each path}}...{{/each}} span.
C7_NoSpanHandedOver == pc = "if" => ~HasEachSpan(result)

\* C7 amended: the iteration stage makes one left-to-right pass over the
\* template and does not scan the replacement text again: the template text
\* it leaves in place (before, between and after the replaced spans)
\* contains no complete span, and the text handed to the conditional stage
\* starts with the first and ends with the last of these pieces.
C7_NoSpanLeftInPlace ==
    pc = "if" =>
        LET gaps == Gaps(FindAll("each", template, 1), template, 1) IN
        /\ \A g \in 1..Len(gaps) : ~HasEachSpan(gaps[g])
        /\ StartsAt(result, 1, gaps[1])
        /\ EndsWith(result, gaps[Len(gaps)])

C7_Witness ==
    /\ pc = "if" /\ template = TwoBlockTemplate
    /\ Xs = VList(<<VDict(<<Entry(kA, None), Entry(kB, VStr(<<"B">>))>>)>>)
    /\ result = <<"|", "B">>

\* the lines of {{#each xs}}{{@index}}.{{a}}{{/each}} over Records, the
\* first item at position idx
RECURSIVE IndexLines(_, _)
IndexLines(items, idx) ==
    IF items = <<>> THEN <<>>
    ELSE IF EmptyItem(Head(items)) THEN IndexLines(Tail(items), idx + 1)
    ELSE <<IntStr(idx) \o <<".">> \o FieldA(Head(items))>> \o IndexLines(Tail(items), idx + 1)

\* C8: an all-empty Record item contributes no line, and every other
\* Record item has {{@index}} replaced by its zero-based position in the
\* source list.
C8_SkipLaw ==
    (Expanded /\ template = IndexTemplate /\ IsRecordList(Xs))
        => result = Join(IndexLines(Xs.l, 0), <<NL>>)

C8_Witness ==
    /\ Done /\ template = IndexTemplate
    /\ Xs = VList(<<VDict(<<Entry(kA, VStr(<<>>))>>), VDict(<<Entry(kA, VStr(<<"A">>))>>)>>)
    /\ result = <<"1", ".", "A">>

\* C9: over n Records none of which is all-empty the block renders n copies
\* of its body in list order, joined by one newline, the i-th with the
\* fields of the i-th item.
C9_IterationCount ==
    (Expanded /\ template = BracketTemplate /\ IsFullRecordList(Xs))
        => result = Join([i \in 1..Len(Xs.l) |-> <<"[">> \o FieldA(Xs.l[i]) \o <<"]">>],
                         <<NL>>)

C9_Witness ==
    /\ Done /\ template = BracketTemplate
    /\ Xs = VList(<<VDict(<<Entry(kA, VStr(<<"A">>))>>), VDict(<<Entry(kA, VInt(0))>>)>>)
    /\ result = <<"[", "A", "]", NL, "[", "0", "]">>

\* C10: an each-block whose path is missing or resolves to Null, a scalar,
\* a Record or the empty List is replaced by the empty string, and the text
\* before and after it is kept.
C10_NotAList ==
    (Expanded /\ template = PlainTemplate /\ (Xs.t # "list" \/ Xs.l = <<>>))
        => result = <<"P", "Q">>

C10_Witness ==
    /\ Done /\ template = PlainTemplate
    /\ Xs = VDict(<<Entry(kA, VStr(<<"A">>))>>)
    /\ result = <<"P", "Q">>

\* the value counts as present for a conditional
Truthy(v) == ~(NamedFalsy(v) \/ EmptyRecord(v))

\* the lines of {{#each xs}}{{#if a}}[{{a}}]{{/if}}{{/each}} over Records
RECURSIVE InnerIfLines(_)
InnerIfLines(items) ==
    IF items = <<>> THEN <<>>
    ELSE LET item == Head(items) IN
         IF EmptyItem(item) THEN InnerIfLines(Tail(items))
         ELSE <<IF Truthy(DictGet(item.d, kA))
                THEN <<"[">> \o FieldA(item) \o <<"]">> ELSE <<>> >>
              \o InnerIfLines(Tail(items))

Step(v, key) ==
    IF v.t = "dict" /\ \E i \in 1..Len(v.d) : v.d[i].k = key
    THEN v.d[CHOOSE i \in 1..Len(v.d) : v.d[i].k = key].v
    ELSE None

\* the value reached from v by descending one key per segment
RECURSIVE Reach(_, _)
Reach(v, segments) ==
    IF segments = <<>> THEN v ELSE Reach(Step(v, Head(segments)), Tail(segments))

\* the Value-to-String rules of the formatting table
FormatValue(v) ==
    IF v.t = "list"
    THEN Join([i \in 1..Len(v.l) |-> FormatScalar(v.l[i])], <<",", " ">>)
    ELSE FormatScalar(v)

\* the paths of the one-token templates, with their segments
TokenPaths ==
    {[text |-> kK, segments |-> <<kK>>],
     [text |-> kKA, segments |-> <<kK, kA>>],
     [text |-> kKAB, segments |-> <<kK, kA, kB>>],
     [text |-> kO, segments |-> <<kO>>]}

\* C12 as stated: a {{path}} token whose path resolves to Null is left
\* unchanged, and a token whose path resolves to a non-Null value is
\* replaced by the formatted text of the value.
C12_TokensResolved ==
    \A p \in TokenPaths :
        LET val == Reach(VDict(context), p.segments) IN
        (Done /\ template = Var(p.text) /\ val.t # "dict")
            => result = (IF val.t = "none" THEN template ELSE FormatValue(val))

\* further paths: a built-in name, an absent key and an empty segment
ProbePaths ==
    TokenPaths
    \cup {[text |-> kXs, segments |-> <<kXs>>],
          [text |-> K_TODAY, segments |-> <<K_TODAY>>],
          [text |-> <<"k", ".", ".", "a">>, segments |-> <<kK, <<>>, kA>>],
          [text |-> <<"k", ".", "b">>, segments |-> <<kK, kB>>]}

\* C13: _resolve_dotted returns the value reached by descending one key
\* per segment, and Null when a segment is missing or a value reached
\* before the last segment is no Record; a {{path}} token is left in place
\* exactly when that value is Null.
C13_PathResolver ==
    /\ pc # "start" =>
          \A p \in ProbePaths : _resolve_dotted(ctx, p.text) = Reach(VDict(ctx), p.segments)
    /\ \A p \in TokenPaths :
          (Done /\ template = Var(p.text))
              => ((result = template) <=> (Reach(VDict(ctx), p.segments) = None))

C13_Witness ==
    /\ Done /\ template = Var(kKAB)
    /\ context = <<Entry(kK, VDict(<<Entry(kA, VDict(<<Entry(kB, VInt(1))>>))>>))>>
    /\ result = <<"1">>

\* the built-in strings of the two instants, written out
BuiltinText(name) ==
    IF now.day = 19783
    THEN CASE name = K_TODAY      -> <<"2", "0", "2", "4", "-", "0", "3", "-", "0", "1">>
           [] name = K_YESTERDAY  -> <<"2", "0", "2", "4", "-", "0", "2", "-", "2", "9">>
           [] name = K_WEEK_START -> <<"2", "0", "2", "4", "-", "0", "2", "-", "2", "6">>
           [] name = K_WEEK_END   -> <<"2", "0", "2", "4", "-", "0", "3", "-", "0", "3">>
           [] name = K_NOW        -> <<"2", "0", "2", "4", "-", "0", "3", "-", "0", "1", " ", "0", "9", ":", "0", "5">>
    ELSE CASE name = K_TODAY      -> <<"2", "0", "2", "5", "-", "0", "1", "-", "0", "1">>
           [] name = K_YESTERDAY  -> <<"2", "0", "2", "4", "-", "1", "2", "-", "3", "1">>
           [] name = K_WEEK_START -> <<"2", "0", "2", "4", "-", "1", "2", "-", "3", "0">>
           [] name = K_WEEK_END   -> <<"2", "0", "2", "5", "-", "0", "1", "-", "0", "5">>
           [] name = K_NOW        -> <<"2", "0", "2", "5", "-", "0", "1", "-", "0", "1", " ", "2", "3", ":", "5", "9">>

\* the value a lookup of a built-in name is to see
Seen(name) ==
    IF DictHas(context, name) THEN DictGet(context, name) ELSE VStr(BuiltinText(name))

\* C14: for each built-in name, a lookup during the render sees the caller's
\* value when the caller's context has a key of that name, and the built-in
\* string otherwise; this holds for the each, if and variable stages.
C14_CallerWins ==
    \A name \in BuiltinNames :
        /\ pc # "start" => DictGet(ctx, name) = Seen(name)
        /\ (Done /\ template = Var(name))
              => result = (IF Seen(name) = None THEN template ELSE FormatValue(Seen(name)))
        /\ (Done /\ template = If(name, <<"X">>))
              => result = (IF Truthy(Seen(name)) THEN <<"X">> ELSE <<>>)
        /\ (pc = "if" /\ template = Each(name, <<"-">> \o ThisToken))
              => result = (IF Seen(name).t = "list"
                           THEN Join([i \in 1..Len(Seen(name).l) |->
                                        <<"-">> \o FormatScalar(Seen(name).l[i])], <<NL>>)
                           ELSE <<>>)

C14_Witness ==
    /\ Done /\ template = Var(K_WEEK_END) /\ now.day = 19783
    /\ DictGet(context, K_WEEK_END) = VStr(<<"w">>)
    /\ result = <<"w">>
    /\ DictGet(ctx, K_WEEK_START) = VStr(<<"2", "0", "2", "4", "-", "0", "2", "-", "2", "6">>)

IsPlainList(v) == v.t = "list" /\ \A i \in 1..Len(v.l) : v.l[i].t # "dict"

\* C15 as stated: for an each-block item that is no Record, every {{this}}
\* of the body is replaced by the item's formatted value, and {{@index}}
\* stays in the rendered output as the literal token.
C15_ScalarItems ==
    (Done /\ template = ThisTemplate /\ IsPlainList(Xs))
        => result = Join([i \in 1..Len(Xs.l) |->
                            <<"-">> \o FormatValue(Xs.l[i]) \o IndexToken], <<NL>>)

DigitChars == {Digit[i] : i \in 1..10}

AllDigits(s) == s # <<>> /\ \A i \in 1..Len(s) : s[i] \in DigitChars

DigitVal(ch) == CHOOSE d \in 0..9 : Digit[d + 1] = ch

\* the number a string of decimal digits denotes
RECURSIVE ParseNat(_)
ParseNat(s) ==
    IF s = <<>> THEN 0
    ELSE ParseNat(SubSeq(s, 1, Len(s) - 1)) * 10 + DigitVal(s[Len(s)])

\* text is the decimal form of h hundredths: integer digits alone when h is
\* a whole number, and digits, a point and two digits otherwise
NumberText(text, h) ==
    LET neg == h < 0
        body == IF neg /\ text # <<>> THEN Tail(text) ELSE text
        n == Len(body)
    IN /\ neg => (text # <<>> /\ Head(text) = "-")
       /\ IF h % 100 = 0
          THEN AllDigits(body) /\ ParseNat(body) * 100 = Abs(h)
          ELSE /\ n >= 4
               /\ body[n - 2] = "."
               /\ AllDigits(SubSeq(body, 1, n - 3))
               /\ AllDigits(SubSeq(body, n - 1, n))
               /\ ParseNat(SubSeq(body, 1, n - 3)) * 100 + ParseNat(SubSeq(body, n - 1, n)) = Abs(h)

\* the hundredths of a Number
Hundredths(v) == IF v.t = "int" THEN 100 * v.n ELSE v.c

IsNumber(v) == v.t \in {"int", "float"}

FloatProbes == {0, 7, 100, 300, 310, 314, 1005, 12345, -50, -100, -314, -1200}

\* C16: a Number whose value is an integer is formatted as plain integer
\* decimal digits with no decimal point, and a float with a non-zero
\* fractional part with exactly two decimal places (3.14 -> "3.14",
\* 3.1 -> "3.10").
C16_NumberFormat ==
    /\ (Done /\ template = Var(kK) /\ IsNumber(DictGet(context, kK)))
          => NumberText(result, Hundredths(DictGet(context, kK)))
    /\ (Done /\ template = ThisTemplate /\ IsPlainList(Xs))
          => \A i \in 1..Len(Xs.l) :
                IsNumber(Xs.l[i]) =>
                    NumberText(SubSeq(Split(result, NL)[i], 2,
                                      Len(Split(result, NL)[i]) - Len(IndexToken)),
                               Hundredths(Xs.l[i]))
    /\ Done => /\ \A c \in FloatProbes : NumberText(_to_str(VFloat(c)), c)
               /\ _to_str(VFloat(314)) = <<"3", ".", "1", "4">>
               /\ _to_str(VFloat(310)) = <<"3", ".", "1", "0">>
               /\ _to_str(VFloat(300)) = <<"3">>

C16_Witness ==
    /\ Done /\ template = Var(kK) /\ DictGet(context, kK) = VFloat(310)
    /\ result = <<"3", ".", "1", "0">>

\* C17 as stated: render_template never raises; for every template, one
\* with an unterminated opener included, and every context of Values the
\* call returns a string, and an opener without a closer is left in the
\* output as literal text.
C17_NeverRaises ==
    /\ pc # "raised"
    /\ (Done /\ template = OpenTemplate) => result = template

\* what a call returns, from its arguments and the current instant alone
Returned(t, c, n) ==
    LET cx == DictMerge(builtins(n), c) IN
    IF SubRaises("each", t, cx) THEN Raised
    ELSE LET r == ConditionalPass(IterationPass(t, cx), cx) IN
         IF SubRaises("var", r, cx) THEN Raised ELSE VariablePass(r, cx)

\* a step of a call, as opposed to the step that starts the next call
InCall == pc' # "start"

\* C18: render_template leaves its inputs unchanged and keeps no state
\* between calls: during a call the template and the caller's context,
\* nested Lists and Records included, stay equal to what they were, and the
\* result of a call, first or later, is a function of the template, the
\* context and the current instant.
C18_Pure ==
    /\ [][InCall => (template' = template /\ context' = context)]_vars
    /\ [](Done => result = Returned(template, context, now))
    /\ []((pc = "raised") => Returned(template, context, now) = Raised)

C18_Witness ==
    /\ Done /\ calls = 2
    /\ template = Var(K_TODAY) /\ context = <<>>
    /\ result = <<"2", "0", "2", "5", "-", "0", "1", "-", "0", "1">>
    /\ now.day = 20089

\* C19: rendering a template without directive syntax returns the template
\* text unchanged, for every context.
C19_PlainText ==
    (Done /\ ~Contains(template, LBrace2)) => result = template

C19_Witness ==
    /\ Done /\ template = <<"a", "{", "b", "}", "c">>
    /\ DictGet(context, kK) = VStr(<<"s">>)
    /\ result = <<"a", "{", "b", "}", "c">>

(***************************************************************************)
(* Properties of run_audit.                                                *)
(***************************************************************************)
AuditDone == apc = "returned"

\* the rules that fire on a store: enabled, with a checker, and the checker
\* gives a result
AlertRules(s) ==
    SelectSeq(rules_cfg, LAMBDA r : /\ GetOr(r.enabled, TRUE)
                                    /\ r.key \in RULE_CHECKERS
                                    /\ checker(r.key, s, r.thresholds))

\* the configured penalty of a level, 10 when none is configured
ConfiguredPenalty(level) ==
    LET configured == GetOr(config.scoring, DefaultScoring)
        key == level \o "_penalty"
    IN IF key \in DOMAIN configured THEN configured[key] ELSE 10

RECURSIVE Deductions(_)
Deductions(rs) ==
    IF rs = <<>> THEN 0
    ELSE ConfiguredPenalty(GetOr(Head(rs).level, "warning")) + Deductions(Tail(rs))

\* the store_scores entry of a store
ExpectedEntry(s) ==
    LET rs == AlertRules(s)
        left == 100 - Deductions(rs)
    IN [store |-> s.name, score |-> IF left > 0 THEN left ELSE 0, count |-> Len(rs)]

Occurrences(e, seq) == Cardinality({i \in 1..Len(seq) : seq[i] = e})

\* C20: run_audit produces one store_scores entry per input store, whose
\* score is max(0, 100 minus the sum over the store's alerts of the
\* configured penalty of the alert's level, 10 when none is configured) and
\* whose alert count is the number of the store's alerts; store_scores is
\* returned sorted by non-decreasing score.
C20_StoreScores ==
    /\ (apc = "store")
          => /\ Len(report.store_scores) = si - 1
             /\ \A i \in 1..Len(report.store_scores) :
                    report.store_scores[i] = ExpectedEntry(stores[i])
    /\ AuditDone
          => LET scores == report.store_scores
                 expected == [i \in 1..Len(stores) |-> ExpectedEntry(stores[i])]
             IN /\ Len(scores) = Len(stores)
                /\ \A i \in 1..Len(scores) :
                       Occurrences(scores[i], scores) = Occurrences(scores[i], expected)
                /\ \A i, j \in 1..Len(scores) : i < j => scores[i].score <= scores[j].score
                /\ \A i \in 1..Len(stores) :
                       Cardinality({k \in 1..Len(report.alerts) :
                                        report.alerts[k].store = stores[i].name})
                       = Cardinality({<<k, a>> \in (1..Len(stores)) \X (1..Len(rules_cfg)) :
                                        /\ stores[k].name = stores[i].name
                                        /\ a <= Len(AlertRules(stores[k]))})

\* a store penalised to below zero is listed with 0, before the healthy
\* store that came first in the input
C20_Witness ==
    /\ AuditDone
    /\ Len(stores) = 2 /\ stores[1] = Store("A", 5, 100, 100, "open")
    /\ report.store_scores = <<[store |-> "C", score |-> 0, count |-> 1],
                               [store |-> "A", score |-> 100, count |-> 0]>>

\* the sum of the counters of a summary over a set of its keys
RECURSIVE SumOver(_, _)
SumOver(summary, keys) ==
    IF keys = {} THEN 0
    ELSE LET k == CHOOSE x \in keys : TRUE IN summary[k] + SumOver(summary, keys \ {k})

\* the stores on which no enabled rule fires
HealthyStores == {i \in 1..Len(stores) : AlertRules(stores[i]) = <<>>}

\* C21 as stated: in the report returned by run_audit, summary.healthy is
\* the number of stores for which no enabled rule fired, every store is
\* counted as healthy or contributes at least one alert and never both, the
\* per-level counters of summary add up to the number of alerts, and
\* total_stores is the number of input stores.
C21_Summary ==
    AuditDone
        => /\ report.summary["healthy"] = Cardinality(HealthyStores)
           /\ \A i \in 1..Len(stores) :
                  (\E k \in 1..Len(report.alerts) : report.alerts[k].store = stores[i].name)
                      <=> (\E j \in 1..Len(stores) :
                              stores[j].name = stores[i].name /\ j \notin HealthyStores)
           /\ Cardinality({k \in 1..Len(report.store_scores) :
                              report.store_scores[k].count = 0})
                  = Cardinality(HealthyStores)
           /\ SumOver(report.summary, DOMAIN report.summary \ {"healthy"}) = Len(report.alerts)
           /\ report.total_stores = Len(stores)

\* the rule about to be looked at is switched off
AtDisabledRule ==
    apc = "rule" /\ ri <= Len(rules_cfg) /\ rules_cfg[ri].enabled = {FALSE}

DisabledNames ==
    {GetOr(rules_cfg[i].name, rules_cfg[i].key) :
        i \in {j \in 1..Len(rules_cfg) : rules_cfg[j].enabled = {FALSE}}}

\* C22: a rule whose configuration has enabled = false is never evaluated:
\* the step of the loop at such a rule leaves the alerts and every summary
\* counter as they were, the report holds no alert of the rule, and the
\* score of a store is 100 when every rule that would fire on it is
\* switched off.
C22_DisabledRule ==
    /\ [][AtDisabledRule => (report' = report /\ store_alerts' = store_alerts)]_vars
    /\ [](\A k \in 1..Len(report.alerts) : report.alerts[k].kind \notin DisabledNames)
    /\ [](\A k \in 1..Len(store_alerts) : store_alerts[k].kind \notin DisabledNames)
    /\ [](\A i \in 1..Len(report.store_scores) :
            (apc = "store" /\ \A j \in 1..Len(rules_cfg) :
                                  rules_cfg[j].enabled # {FALSE} =>
                                      ~(/\ rules_cfg[j].key \in RULE_CHECKERS
                                        /\ checker(rules_cfg[j].key, stores[i],
                                                   rules_cfg[j].thresholds)))
                => report.store_scores[i].score = 100)

\* the store without sales is audited with zero_sales switched off: it is
\* healthy and keeps its 100 points
C22_Witness ==
    /\ AuditDone
    /\ stores = <<Store("D", 5, 0, 0, "closed"), Store("E", -5, 0, 0, "open")>>
    /\ \E j \in 1..Len(rules_cfg) :
           rules_cfg[j].key = "zero_sales" /\ rules_cfg[j].enabled = {FALSE}
    /\ report.alerts = <<[store |-> "E", kind |-> "negative_inventory", level |-> "warning"]>>
    /\ report.store_scores = <<[store |-> "E", score |-> 40, count |-> 1],
                               [store |-> "D", score |-> 100, count |-> 0]>>

(***************************************************************************)
(* Properties of batch_create and batch_update.                            *)
(***************************************************************************)
BatchDone == bpc = "returned"

\* C23: batch_create and batch_update make no API call when the input list
\* is empty or dry_run is true: with an empty list they return a count of 0,
\* and with dry_run on a non-empty list they return would_create /
\* would_update equal to the number of input records and a sample of the
\* first records, at most 3.
C23_NoCallWhenEmptyOrDry ==
    /\ (Len(records) = 0 \/ dry_run) => sent = <<>>
    /\ (BatchDone /\ Len(records) = 0)
          => /\ CountKey \in DOMAIN ret
             /\ ret[CountKey] = 0
             /\ WouldKey \notin DOMAIN ret
    /\ (BatchDone /\ Len(records) > 0 /\ dry_run)
          => /\ DOMAIN ret = {WouldKey, "sample"}
             /\ ret[WouldKey] = Len(records)
             /\ Len(ret["sample"]) = (IF Len(records) < 3 THEN Len(records) ELSE 3)
             /\ \A k \in 1..Len(ret["sample"]) : ret["sample"][k] = records[k]

C23_Witness ==
    /\ BatchDone /\ op = "update" /\ dry_run /\ Len(records) = ChunkSize + 1
    /\ ret["would_update"] = ChunkSize + 1
    /\ ret["sample"] = <<1, 2, 3>>
    /\ sent = <<>>

\* the chunks put one after the other
RECURSIVE Flatten(_)
Flatten(chunks) ==
    IF chunks = <<>> THEN <<>> ELSE Head(chunks) \o Flatten(Tail(chunks))

RECURSIVE SumCounts(_)
SumCounts(es) == IF es = <<>> THEN 0 ELSE Head(es).count + SumCounts(Tail(es))

\* the first position of the k-th chunk, counted from 0
ChunkStart(k) == (k - 1) * ChunkSize

\* C24: a batch_create or batch_update of n records that is neither empty
\* nor a dry run calls the API once per consecutive chunk of at most 500
\* records in input order, every record is in exactly one chunk, a failing
\* chunk is recorded in errors with its offset and count and does not stop
\* the later chunks, and on return created / updated plus the counts in
\* errors is total = n.
C24_Chunking ==
    /\ bpc = "loop"
          => /\ \A k \in 1..Len(sent) :
                    /\ Len(sent[k]) \in 1..ChunkSize
                    /\ k < Len(sent) => Len(sent[k]) = ChunkSize
                    /\ sent[k] = SubSeq(records, ChunkStart(k) + 1, ChunkStart(k) + Len(sent[k]))
             /\ offset = Len(sent) * ChunkSize
             /\ \A e \in 1..Len(errors) :
                    \E k \in 1..Len(sent) :
                        /\ errors[e].offset = ChunkStart(k)
                        /\ errors[e].count = Len(sent[k])
             /\ \A e, f \in 1..Len(errors) : e < f => errors[e].offset < errors[f].offset
             /\ created + SumCounts(errors) = Len(Flatten(sent))
    /\ (BatchDone /\ Len(records) > 0 /\ ~dry_run)
          => /\ Flatten(sent) = records
             /\ Len(sent) = (Len(records) + ChunkSize - 1) \div ChunkSize
             /\ DOMAIN ret = {CountKey, "total", "errors"}
             /\ ret["total"] = Len(records)
             /\ ret["errors"] = errors
             /\ ret[CountKey] + SumCounts(ret["errors"]) = ret["total"]

\* the first of three chunks fails and the other two are still sent
C24_Witness ==
    /\ BatchDone /\ op = "create" /\ Len(records) = 2 * ChunkSize + 1
    /\ Len(sent) = 3
    /\ ret["errors"] = <<[offset |-> 0, count |-> ChunkSize, error |-> "error"]>>
    /\ ret["created"] = ChunkSize + 1

\* a list of strings / of Records whose field a is a string
IsStrList(v) == v.t = "list" /\ \A i \in 1..Len(v.l) : v.l[i].t = "str"

IsStrFieldList(v) ==
    /\ v.t = "list"
    /\ \A i \in 1..Len(v.l) :
          /\ v.l[i].t = "dict"
          /\ DictGet(v.l[i].d, kA).t = "str"
          /\ DictGet(v.l[i].d, kA).s # <<>>

\* C30: text that enters the output by substitution of a context value (an
\* item, a field of an item, a variable of the variable stage) is not read
\* as a directive: the string values appear verbatim in the final output,
\* whatever {{...}} sequences they hold.
C30_SubstitutedVerbatim ==
    Done =>
        /\ (template = Var(kK) /\ DictGet(context, kK).t = "str")
              => result = DictGet(context, kK).s
        /\ (template = EachThisTemplate /\ IsStrList(Xs))
              => result = Join([i \in 1..Len(Xs.l) |-> Xs.l[i].s], <<NL>>)
        /\ (template = EachFieldTemplate /\ IsStrFieldList(Xs))
              => result = Join([i \in 1..Len(Xs.l) |-> DictGet(Xs.l[i].d, kA).s], <<NL>>)

\* the part that holds: a value put in by the variable stage is not read again
C30_VariableStageVerbatim ==
    (Done /\ template = Var(kK) /\ DictGet(context, kK).t = "str")
        => result = DictGet(context, kK).s

(***************************************************************************)
(* Properties of the scheduler.                                            *)
(***************************************************************************)
IsDaily(j) == j.schedule.frequency = "daily"

\* the step that enters the runner of the job at hand
EntersRunner == jpc = "loop" /\ jpc' = "running"

\* the runner of a daily job is entered at most once per calendar day
C25_AtMostOncePerDay ==
    [][(EntersRunner /\ ~forced_ever' /\ IsDaily(job) /\ job_id \in DOMAIN last_invoked)
          => DateOf(last_invoked[job_id]) # DateOf(clock)]_vars

\* and never before the configured time of day
C25_NotBeforeTime ==
    [][(EntersRunner /\ ~forced_ever' /\ IsDaily(job))
          => HourOf(clock) >= job.schedule.time]_vars

\* is_job_due is looked at with the state at hand: between the calls and
\* between the jobs of a call
AtRest == jpc \in {"idle", "loop", "returned"}

\* once run on a day, the job is not due for the rest of that day
C25_NotDueSameDay ==
    (AtRest /\ ~forced_ever) =>
        \A k \in 1..Len(jobs) :
            (/\ IsDaily(jobs[k])
             /\ jobs[k].id \in DOMAIN last_invoked
             /\ DateOf(clock) = DateOf(last_invoked[jobs[k].id]))
            => ~is_job_due(jobs[k], state, clock)

\* and is due again on the next day from the configured time on
C25_DueNextDay ==
    (AtRest /\ ~forced_ever) =>
        \A k \in 1..Len(jobs) :
            (/\ IsDaily(jobs[k])
             /\ jobs[k].id \in DOMAIN last_invoked
             /\ DateOf(clock) = DateOf(last_invoked[jobs[k].id]) + 1
             /\ HourOf(clock) >= jobs[k].schedule.time)
            => is_job_due(jobs[k], state, clock)

\* C25: over calls of run_due_jobs without force_job, the runner of a daily
\* job is entered at most once per calendar day and never before its
\* configured time; once the job has run on a day (runner returned or
\* raised) is_job_due is false for the rest of that day and true again on
\* the next day from the configured time on.
C25_DailyOnce ==
    /\ C25_AtMostOncePerDay
    /\ C25_NotBeforeTime
    /\ [](C25_NotDueSameDay /\ C25_DueNextDay)
JobsReturned == jpc = "returned"

JobEnabled(j) == GetOr(j.enabled, TRUE)

RunnerKnown(j) == GetOr(j.type, "audit") \in REPORT_RUNNERS

\* the ids of the jobs with an entry in results
RunIds == {results[i].job_id : i \in 1..Len(results)}

\* the status of the last entry of results for an id
LastStatus(id) ==
    LET i == CHOOSE i \in 1..Len(results) :
                 /\ results[i].job_id = id
                 /\ \A j \in (i + 1)..Len(results) : results[j].job_id # id
    IN  results[i].status

\* the jobs a call under force_job has to run, in schedule order
RECURSIVE ForcedIds(_)
ForcedIds(k) ==
    IF k = 0 THEN <<>>
    ELSE IF JobEnabled(jobs[k]) /\ jobs[k].id = force_job /\ RunnerKnown(jobs[k])
         THEN Append(ForcedIds(k - 1), jobs[k].id)
         ELSE ForcedIds(k - 1)

\* the step in which the try statement is left, by either way
LeavesTry == jpc = "running" /\ jpc' = "loop"

\* an entry is appended and the state is set for the job, with one status;
\* the loop goes on with the next job and the state file is not written
C26_TryStep ==
    [][LeavesTry =>
          /\ Len(results') = Len(results) + 1
          /\ SubSeq(results', 1, Len(results)) = results
          /\ results'[Len(results')].job_id = job_id
          /\ results'[Len(results')].status \in {"success", "error"}
          /\ job_id \in DOMAIN state'
          /\ state'[job_id].last_status = results'[Len(results')].status
          /\ state'[job_id].last_run = clock
          /\ \A id \in DOMAIN state \ {job_id} : state'[id] = state[id]
          /\ ji' = ji + 1
          /\ state_file' = state_file /\ saves' = saves]_vars

\* inside the loop the state file is as it was read
C26_NoSaveInLoop ==
    jpc \in {"loop", "running"} => saves = 0 /\ state_file = loaded

\* after the call: saved once; an entry for every job run, with the status
\* of its last run; all other entries as they were read; only enabled jobs
\* with a runner were run
C26_SavedState ==
    JobsReturned =>
        /\ saves = 1
        /\ state_file = state
        /\ DOMAIN state_file = DOMAIN loaded \cup RunIds
        /\ \A id \in RunIds : state_file[id].last_status = LastStatus(id)
        /\ \A id \in DOMAIN loaded \ RunIds : state_file[id] = loaded[id]
        /\ \A i \in 1..Len(results) :
              \E k \in 1..Len(jobs) :
                  /\ jobs[k].id = results[i].job_id
                  /\ JobEnabled(jobs[k]) /\ RunnerKnown(jobs[k])
        /\ \A k \in 1..Len(jobs) :
              (~JobEnabled(jobs[k]) \/ ~RunnerKnown(jobs[k])) =>
                  /\ jobs[k].id \notin RunIds
                  /\ jobs[k].id \in DOMAIN loaded =>
                        state_file[jobs[k].id] = loaded[jobs[k].id]

\* every selected job has been run, whatever the runners before it did:
\* under force_job the enabled jobs of that id; otherwise, in a call that
\* began and ended on one day, every job that was due when the call began
C26_AllSelectedRun ==
    JobsReturned =>
        /\ force_job # "" =>
              [i \in 1..Len(results) |-> results[i].job_id] = ForcedIds(Len(jobs))
        /\ (force_job = "" /\ DateOf(started) = DateOf(clock)) =>
              \A k \in 1..Len(jobs) :
                  (/\ JobEnabled(jobs[k]) /\ RunnerKnown(jobs[k])
                   /\ is_job_due(jobs[k], loaded, started)
                   /\ \A h \in 1..(k - 1) : jobs[h].id # jobs[k].id)
                  => jobs[k].id \in RunIds

\* C26: a runner that raises does not stop the run: an entry with status
\* "error" is appended to the results, state[job_id] gets last_status
\* "error", every later selected job is still run, and the state, with an
\* entry for every job run in this call and the other entries unchanged, is
\* saved once after the loop; disabled jobs and jobs of unknown type are not
\* run and keep their state entries.
C26_RaiseDoesNotStop ==
    /\ C26_TryStep
    /\ [](C26_NoSaveInLoop /\ C26_SavedState /\ C26_AllSelectedRun)

\* a call has returned in which a runner raised and a later job was run,
\* with a disabled job and a job of unknown type in the schedule whose
\* entries were carried over
C26_Witness ==
    /\ JobsReturned
    /\ \E i \in 1..Len(results) :
          /\ results[i].status = "error"
          /\ i < Len(results)
          /\ state_file[results[i].job_id].last_status = "error"
    /\ \E k \in 1..Len(jobs) : ~JobEnabled(jobs[k]) /\ jobs[k].id \in DOMAIN state_file
    /\ \E k \in 1..Len(jobs) : ~RunnerKnown(jobs[k]) /\ jobs[k].id \in DOMAIN state_file
(***************************************************************************)
(* Properties of get_token.                                                *)
(***************************************************************************)
\* the call returns at once / posts a request / comes back with a token /
\* raises
ReturnsAtOnce == tpc = "idle" /\ tpc' = "returned"
Posts == tpc = "idle" /\ tpc' = "posted"
ComesBack == tpc = "posted" /\ tpc' = "returned"
Raises == tpc' = "raised" /\ tpc # "raised"

\* the token is returned without a request exactly when one is cached whose
\* expiry is more than 60 seconds ahead
C27_ServedWhenFresh ==
    [][/\ ReturnsAtOnce =>
             /\ cache_fresh(wall)
             /\ token' = _token_cache.token
             /\ posts' = 0
             /\ _token_cache' = _token_cache
       /\ Posts => ~cache_fresh(wall) /\ posts' = 1]_vars

\* a successful request stores the token with expiry = time of the request
\* + the lifetime of the response
C27_StoredOnSuccess ==
    [][ComesBack =>
          /\ resp'.code = 0
          /\ _token_cache'.token = resp'.tenant_access_token
          /\ _token_cache'.expires_at = t_now + GetOr(resp'.expire, DefaultExpire)
          /\ token' = _token_cache'.token]_vars

\* a failing request raises and leaves the cache as it was
C27_UnchangedOnFailure ==
    [][Raises =>
          /\ tpc = "posted"
          /\ resp' = HttpFailure \/ resp'.code # 0
          /\ _token_cache' = _token_cache]_vars

\* a token returned from the cache has more than 60 seconds left, by the
\* cache's record and by the server's
C27_ValidityLeft ==
    (tpc = "returned" /\ posts = 0) =>
        /\ token = _token_cache.token /\ token # 0
        /\ _token_cache.expires_at - wall > Margin
        /\ valid_until - wall > Margin

\* C27: get_token returns the cached token without a request exactly when a
\* token is cached whose expiry is more than 60 seconds after the current
\* time; otherwise it requests a token and on success stores it with expiry
\* = request time + returned lifetime; a failing request raises and leaves
\* the cache unchanged; every token returned from the cache has more than 60
\* seconds of validity left.
C27_TokenCache ==
    /\ C27_ServedWhenFresh
    /\ C27_StoredOnSuccess
    /\ C27_UnchangedOnFailure
    /\ []C27_ValidityLeft

\* the second token of the server is returned from the cache: the first has
\* been replaced by a request
C27_Witness ==
    /\ tpc = "returned" /\ posts = 0
    /\ token = 2
    /\ wall > 0
(***************************************************************************)
(* Properties of bitable_list_all_records.                                 *)
(***************************************************************************)
PagesReturned == lpc = "returned"

\* a response whose has_more is false (or missing) is at hand
GotLast == lpc = "got" /\ ~has_more

\* on return all_records holds the items of every page once, in page order
C28_AllItemsOnce ==
    PagesReturned => all_records = Flatten(table)

\* the first request passes no token, each later one the token of the
\* response before it; the loop is left exactly on a response whose
\* has_more is false
C28_Steps ==
    [][/\ (lpc = "loop" /\ lpc' = "waiting") =>
             /\ request'.page_token = page_token
             /\ request'.page_size = PageSize
             /\ data = <<>> => page_token = 0
             /\ data # <<>> => page_token = GetOr(data.page_token, 0)
       /\ (lpc = "got" /\ lpc' = "loop") =>
             /\ has_more
             /\ page_token' = GetOr(data.page_token, 0)
             /\ all_records' = all_records \o GetOr(data.items, <<>>)
       /\ (lpc = "got" /\ lpc' = "returned") =>
             /\ ~has_more
             /\ all_records' = all_records \o GetOr(data.items, <<>>)
       /\ lpc = "returned" => lpc' = "returned"]_vars

\* once a response with has_more false has come, the function returns
C28_Terminates == <>GotLast => <>PagesReturned

\* C28: bitable_list_all_records returns the items of every page exactly
\* once, in page order: it requests the pages one after another, passes to
\* each request the page_token of the previous response, stops after the
\* first response whose has_more is false, and so terminates whenever the
\* server eventually returns has_more = false.
C28_Pagination ==
    /\ []C28_AllItemsOnce
    /\ C28_Steps
    /\ C28_Terminates

\* a table of as many pages as the bound allows has been returned, the last
\* request having carried the token of the last page
C28_Witness ==
    /\ PagesReturned
    /\ Len(table) = MaxPages
    /\ Len(all_records) > MaxPageLen
    /\ request.page_token = MaxPages
    /\ data.items = {table[MaxPages]}
(***************************************************************************)
(* Properties of _import.                                                  *)
(***************************************************************************)
ImportOver == ipc \in {"returned", "raised"}

\* C29: when _import is over, by return or by raising, both credentials
\* are set or unset as before the call and have the values they had, and
\* no placeholder is left in the environment.
C29_EnvironKept ==
    ImportOver =>
        /\ environ = environ0
        /\ \A k \in DOMAIN environ : environ[k] # Placeholder
====
